---- MODULE Spec2Model ----
(***************************************************************************)
(* The headless login flow of ghinbox: the FastAPI route handlers of       *)
(* api/login_routes.py driving one LoginFetcher (api/login_fetcher.py) per *)
(* login session.                                                          *)
(*                                                                         *)
(* Every handler is an asyncio coroutine.  Code between two awaits runs    *)
(* atomically; an await on the browser suspends the handler and lets every *)
(* other handler run.  One action of this module is therefore: the await a *)
(* task is suspended in completes (or raises), and the code after it runs  *)
(* up to and including the start of the next await.  h.pc names the *)
(* await a task is suspended in.                                           *)
(*                                                                         *)
(* The session manager (ghinbox/api/login_state.py) is imported by the     *)
(* routes but is not among the source files; its operations are modelled   *)
(* from the data model of the specification.                               *)
(***************************************************************************)
EXTENDS Integers, Sequences, FiniteSets, Bags, TLC

\* The handlers that can be suspended in an await at once.
MaxTasks == 2

\* Session ids are opaque tokens.  A handler reads and writes only the record
\* and the fetcher of the id in its request, so one id is modelled; before
\* start_login has handed it out, and after cancel_login has removed it, it
\* is an id that requests name and no session has.
SessionIds == {"s1"}

\* Python's None.
None == "<None>"

\* login_state.LoginState
INITIALIZED == "initialized"
SUBMITTING_CREDENTIALS == "submitting_credentials"
WAITING_2FA == "waiting_2fa"
WAITING_MOBILE == "waiting_mobile"
SUBMITTING_2FA == "submitting_2fa"
SUCCESS == "success"
ERROR == "error"
CAPTCHA == "captcha"
LoginState == {INITIALIZED, SUBMITTING_CREDENTIALS, WAITING_2FA, WAITING_MOBILE,
               SUBMITTING_2FA, SUCCESS, ERROR, CAPTCHA}

\* login_fetcher.PageState
LOGIN_FORM == "login_form"
TWOFA_APP == "twofa_app"
TWOFA_SMS == "twofa_sms"
TWOFA_MOBILE == "twofa_mobile"
TWOFA_SECURITY_KEY == "twofa_security_key"
LOGGED_IN == "logged_in"
LOGIN_ERROR == "login_error"
PS_CAPTCHA == "ps_captcha"
UNKNOWN == "unknown"
PageState == {LOGIN_FORM, TWOFA_APP, TWOFA_SMS, TWOFA_MOBILE, TWOFA_SECURITY_KEY,
              LOGGED_IN, LOGIN_ERROR, PS_CAPTCHA, UNKNOWN}

\* detect_page_state answers NAVIGATE where the code follows the mobile link
\* of a security-key page and detects again on the page it reaches.
NAVIGATE == "navigate"

\* login_fetcher.PageStateResult
PageStateResult(state, error_message, twofa_method, verification_code) ==
    [state |-> state, error_message |-> error_message,
     twofa_method |-> twofa_method, verification_code |-> verification_code]

NoResult == PageStateResult(None, None, None, None)

\* Python's `x or d`.
Or(x, d) == IF x = None \/ x = "" THEN d ELSE x

\* Texts the remote page and the environment supply.
FlashText == "Incorrect username or password."
ExcText == "exception text"
MobileCode == "42"
Octocat == "octocat"
Accounts == {"default"}

CaptchaMessage == "CAPTCHA required. Use --headed-login flag to login manually."
SecurityKeyMessage ==
    "Security key 2FA not supported. Please configure authenticator app in GitHub settings."

(***************************************************************************)
(* The remote page, as the answers it gives to the probes of               *)
(* detect_page_state.                                                      *)
(***************************************************************************)
BlankPage ==
    [userMenu |-> FALSE, captcha |-> FALSE, url |-> "other", code |-> None,
     mobileEl |-> FALSE, mobileLink |-> "none", secKeyBtn |-> FALSE,
     appOtp |-> FALSE, appTotp |-> FALSE, twofaText |-> FALSE, smsOtp |-> FALSE,
     genericOtp |-> FALSE,
     flash |-> None, alt |-> None, loginInput |-> FALSE, passwordInput |-> FALSE]

\* The pages the remote site serves in the session model.
PageKinds == {"login", "home", "captcha", "mobile", "webauthn_link", "webauthn",
              "app", "app_err", "sms", "bad_login", "blank"}

Fixture(kind) ==
    CASE kind = "login" ->
           [BlankPage EXCEPT !.loginInput = TRUE, !.passwordInput = TRUE]
      [] kind = "home" -> [BlankPage EXCEPT !.userMenu = TRUE]
      [] kind = "captcha" ->
           [BlankPage EXCEPT !.captcha = TRUE, !.loginInput = TRUE,
                             !.passwordInput = TRUE]
      [] kind = "mobile" ->
           [BlankPage EXCEPT !.url = "mobile", !.code = MobileCode,
                             !.twofaText = TRUE]
      [] kind = "webauthn_link" ->
           [BlankPage EXCEPT !.url = "webauthn", !.mobileLink = "href",
                             !.secKeyBtn = TRUE, !.twofaText = TRUE]
      [] kind = "webauthn" ->
           [BlankPage EXCEPT !.url = "webauthn", !.secKeyBtn = TRUE,
                             !.twofaText = TRUE]
      [] kind = "app" ->
           [BlankPage EXCEPT !.appOtp = TRUE, !.twofaText = TRUE, !.flash = ""]
      \* the code input shown again after a wrong code, with the rejection banner
      [] kind = "app_err" ->
           [BlankPage EXCEPT !.appOtp = TRUE, !.twofaText = TRUE,
                             !.flash = FlashText]
      [] kind = "sms" ->
           [BlankPage EXCEPT !.twofaText = TRUE, !.smsOtp = TRUE]
      [] kind = "bad_login" ->
           [BlankPage EXCEPT !.loginInput = TRUE, !.passwordInput = TRUE,
                             !.flash = FlashText]
      [] OTHER -> BlankPage

\* The pages the remote site serves in the flows.
Pages == {Fixture(kind) : kind \in PageKinds}

\* Python's str.strip() on the banner texts the pages carry.
Strip(text) == IF text = " " THEN "" ELSE text

\* detect_page_state with the CAPTCHA rule ahead of the user-menu rule.
detect_page_state_captcha_first(p) ==
    IF p.captcha THEN PageStateResult(PS_CAPTCHA, CaptchaMessage, None, None)
    ELSE IF p.userMenu THEN PageStateResult(LOGGED_IN, None, None, None)
    ELSE IF p.url = "mobile"
      THEN PageStateResult(TWOFA_MOBILE, None, "mobile", p.code)
    ELSE IF p.mobileEl THEN PageStateResult(TWOFA_MOBILE, None, "mobile", None)
    ELSE IF p.url = "webauthn"
      THEN IF p.mobileLink = "href"
             THEN PageStateResult(NAVIGATE, None, None, None)
             ELSE PageStateResult(TWOFA_SECURITY_KEY, SecurityKeyMessage,
                                  "security_key", None)
    ELSE IF p.secKeyBtn
      THEN PageStateResult(TWOFA_SECURITY_KEY, SecurityKeyMessage,
                           "security_key", None)
    ELSE IF p.appOtp \/ p.appTotp THEN PageStateResult(TWOFA_APP, None, "app", None)
    ELSE IF p.twofaText /\ p.smsOtp
      THEN PageStateResult(TWOFA_SMS, None, "sms", None)
    ELSE IF p.twofaText /\ p.genericOtp
      THEN PageStateResult(TWOFA_APP, None, "app", None)
    ELSE IF p.flash # None /\ Strip(p.flash) # ""
      THEN PageStateResult(LOGIN_ERROR, Strip(p.flash), None, None)
    ELSE IF p.alt # None /\ Strip(p.alt) # ""
      THEN PageStateResult(LOGIN_ERROR, Strip(p.alt), None, None)
    ELSE IF p.loginInput /\ p.passwordInput
      THEN PageStateResult(LOGIN_FORM, None, None, None)
    ELSE PageStateResult(UNKNOWN, None, None, None)

\* detect_page_state with the flash-error rule ahead of the one-time-code rules.
detect_page_state_banner_first(p) ==
    IF p.userMenu THEN PageStateResult(LOGGED_IN, None, None, None)
    ELSE IF p.captcha THEN PageStateResult(PS_CAPTCHA, CaptchaMessage, None, None)
    ELSE IF p.url = "mobile"
      THEN PageStateResult(TWOFA_MOBILE, None, "mobile", p.code)
    ELSE IF p.mobileEl THEN PageStateResult(TWOFA_MOBILE, None, "mobile", None)
    ELSE IF p.url = "webauthn"
      THEN IF p.mobileLink = "href"
             THEN PageStateResult(NAVIGATE, None, None, None)
             ELSE PageStateResult(TWOFA_SECURITY_KEY, SecurityKeyMessage,
                                  "security_key", None)
    ELSE IF p.secKeyBtn
      THEN PageStateResult(TWOFA_SECURITY_KEY, SecurityKeyMessage,
                           "security_key", None)
    ELSE IF p.flash # None /\ Strip(p.flash) # ""
      THEN PageStateResult(LOGIN_ERROR, Strip(p.flash), None, None)
    ELSE IF p.appOtp \/ p.appTotp THEN PageStateResult(TWOFA_APP, None, "app", None)
    ELSE IF p.twofaText /\ p.smsOtp
      THEN PageStateResult(TWOFA_SMS, None, "sms", None)
    ELSE IF p.twofaText /\ p.genericOtp
      THEN PageStateResult(TWOFA_APP, None, "app", None)
    ELSE IF p.alt # None /\ Strip(p.alt) # ""
      THEN PageStateResult(LOGIN_ERROR, Strip(p.alt), None, None)
    ELSE IF p.loginInput /\ p.passwordInput
      THEN PageStateResult(LOGIN_FORM, None, None, None)
    ELSE PageStateResult(UNKNOWN, None, None, None)
\* detect_page_state reporting the security-key page without following its
\* mobile link.
detect_page_state_no_fallback(p) ==
    IF p.userMenu THEN PageStateResult(LOGGED_IN, None, None, None)
    ELSE IF p.captcha THEN PageStateResult(PS_CAPTCHA, CaptchaMessage, None, None)
    ELSE IF p.url = "mobile"
      THEN PageStateResult(TWOFA_MOBILE, None, "mobile", p.code)
    ELSE IF p.mobileEl THEN PageStateResult(TWOFA_MOBILE, None, "mobile", None)
    ELSE IF p.url = "webauthn"
      THEN PageStateResult(TWOFA_SECURITY_KEY, SecurityKeyMessage,
                           "security_key", None)
    ELSE IF p.secKeyBtn
      THEN PageStateResult(TWOFA_SECURITY_KEY, SecurityKeyMessage,
                           "security_key", None)
    ELSE IF p.appOtp \/ p.appTotp THEN PageStateResult(TWOFA_APP, None, "app", None)
    ELSE IF p.twofaText /\ p.smsOtp
      THEN PageStateResult(TWOFA_SMS, None, "sms", None)
    ELSE IF p.twofaText /\ p.genericOtp
      THEN PageStateResult(TWOFA_APP, None, "app", None)
    ELSE IF p.flash # None /\ Strip(p.flash) # ""
      THEN PageStateResult(LOGIN_ERROR, Strip(p.flash), None, None)
    ELSE IF p.alt # None /\ Strip(p.alt) # ""
      THEN PageStateResult(LOGIN_ERROR, Strip(p.alt), None, None)
    ELSE IF p.loginInput /\ p.passwordInput
      THEN PageStateResult(LOGIN_FORM, None, None, None)
    ELSE PageStateResult(UNKNOWN, None, None, None)
\* detect_page_state with a banner of no text taken for an error.
detect_page_state_blank_banner(p) ==
    IF p.userMenu THEN PageStateResult(LOGGED_IN, None, None, None)
    ELSE IF p.captcha THEN PageStateResult(PS_CAPTCHA, CaptchaMessage, None, None)
    ELSE IF p.url = "mobile"
      THEN PageStateResult(TWOFA_MOBILE, None, "mobile", p.code)
    ELSE IF p.mobileEl THEN PageStateResult(TWOFA_MOBILE, None, "mobile", None)
    ELSE IF p.url = "webauthn"
      THEN IF p.mobileLink = "href"
             THEN PageStateResult(NAVIGATE, None, None, None)
             ELSE PageStateResult(TWOFA_SECURITY_KEY, SecurityKeyMessage,
                                  "security_key", None)
    ELSE IF p.secKeyBtn
      THEN PageStateResult(TWOFA_SECURITY_KEY, SecurityKeyMessage,
                           "security_key", None)
    ELSE IF p.appOtp \/ p.appTotp THEN PageStateResult(TWOFA_APP, None, "app", None)
    ELSE IF p.twofaText /\ p.smsOtp
      THEN PageStateResult(TWOFA_SMS, None, "sms", None)
    ELSE IF p.twofaText /\ p.genericOtp
      THEN PageStateResult(TWOFA_APP, None, "app", None)
    ELSE IF p.flash # None
      THEN PageStateResult(LOGIN_ERROR, Strip(p.flash), None, None)
    ELSE IF p.alt # None /\ Strip(p.alt) # ""
      THEN PageStateResult(LOGIN_ERROR, Strip(p.alt), None, None)
    ELSE IF p.loginInput /\ p.passwordInput
      THEN PageStateResult(LOGIN_FORM, None, None, None)
    ELSE PageStateResult(UNKNOWN, None, None, None)

\* LoginFetcher.detect_page_state, the probes of one page in their order.
detect_page_state(p) ==
    IF p.userMenu THEN PageStateResult(LOGGED_IN, None, None, None)
    ELSE IF p.captcha THEN PageStateResult(PS_CAPTCHA, CaptchaMessage, None, None)
    ELSE IF p.url = "mobile"
      THEN PageStateResult(TWOFA_MOBILE, None, "mobile", p.code)
    ELSE IF p.mobileEl THEN PageStateResult(TWOFA_MOBILE, None, "mobile", None)
    ELSE IF p.url = "webauthn"
      THEN IF p.mobileLink = "href"
             THEN PageStateResult(NAVIGATE, None, None, None)
             ELSE PageStateResult(TWOFA_SECURITY_KEY, SecurityKeyMessage,
                                  "security_key", None)
    ELSE IF p.secKeyBtn
      THEN PageStateResult(TWOFA_SECURITY_KEY, SecurityKeyMessage,
                           "security_key", None)
    ELSE IF p.appOtp \/ p.appTotp THEN PageStateResult(TWOFA_APP, None, "app", None)
    ELSE IF p.twofaText /\ p.smsOtp
      THEN PageStateResult(TWOFA_SMS, None, "sms", None)
    ELSE IF p.twofaText /\ p.genericOtp
      THEN PageStateResult(TWOFA_APP, None, "app", None)
    ELSE IF p.flash # None /\ Strip(p.flash) # ""
      THEN PageStateResult(LOGIN_ERROR, Strip(p.flash), None, None)
    ELSE IF p.alt # None /\ Strip(p.alt) # ""
      THEN PageStateResult(LOGIN_ERROR, Strip(p.alt), None, None)
    ELSE IF p.loginInput /\ p.passwordInput
      THEN PageStateResult(LOGIN_FORM, None, None, None)
    ELSE PageStateResult(UNKNOWN, None, None, None)

\* What detect_page_state and the flow operations return for a raised probe.
UnknownResult(message) == PageStateResult(UNKNOWN, message, None, None)

BrowserNotStarted == UnknownResult("Browser not started")
ErrorDetecting == UnknownResult("Error detecting page state: exception text")
\* ErrorSubmittingCredentials without the text of the exception.
ErrorSubmittingCredentials_silent == UnknownResult(None)

ErrorSubmittingCredentials ==
    UnknownResult("Error submitting credentials: exception text")
ErrorSubmitting2FA == UnknownResult("Error submitting 2FA code: exception text")
No2FAInput == UnknownResult("Could not find 2FA input field")
MobileTimeout ==
    PageStateResult(TWOFA_MOBILE,
        "Mobile approval timed out after N seconds. Please try again.",
        "mobile", None)

(***************************************************************************)
(* The session manager.                                                    *)
(***************************************************************************)
\* login_state: a session record as create_session makes it.
NewSession(account) ==
    [state |-> INITIALIZED, account |-> account, error_message |-> None,
     username |-> None, requires_2fa |-> FALSE, twofa_method |-> None]

\* login_state: update_state(session_id, state, **fields).  A field that is
\* not given (None; requires_2fa = FALSE stands for "not given", the routes
\* only ever pass True) keeps its value; entering SUCCESS or ERROR clears the
\* second-factor fields; an id that is not registered is left unregistered.
update_state(reg, sid, state, error_message, username, requires_2fa, twofa_method) ==
    IF sid \notin DOMAIN reg THEN reg
    ELSE [reg EXCEPT ![sid] =
            [state |-> state,
             account |-> @.account,
             error_message |-> IF error_message = None THEN @.error_message
                               ELSE error_message,
             username |-> IF username = None THEN @.username ELSE username,
             requires_2fa |-> IF state \in {SUCCESS, ERROR} THEN FALSE
                              ELSE IF requires_2fa THEN TRUE
                              ELSE @.requires_2fa,
             twofa_method |-> IF state \in {SUCCESS, ERROR} THEN None
                              ELSE IF twofa_method = None THEN @.twofa_method
                              ELSE twofa_method]]

\* login_state: remove_session(session_id) drops the record.
remove_session(reg, sid) == [s \in DOMAIN reg \ {sid} |-> reg[s]]

\* login_state: set_fetcher(session_id, fetcher) attaches the fetcher to a
\* registered session.
set_fetcher(fs, reg, sid) == IF sid \in DOMAIN reg THEN fs \cup {sid} ELSE fs

(***************************************************************************)
(* Responses of the routes.                                                *)
(***************************************************************************)
\* login_routes.LoginResponse, with the route and the HTTP code.  `result`
\* and `save` record what the route answered to: the PageState its fetcher
\* operation returned, and whether save_auth_state succeeded.
LoginResponse(op, sid, status, message, error, username, twofa_method, verification_code) ==
    [op |-> op, sid |-> sid, http |-> 200, status |-> status, message |-> message,
     error |-> error, username |-> username, twofa_method |-> twofa_method,
     verification_code |-> verification_code, result |-> None, save |-> None]

\* fastapi.HTTPException(status_code, detail) raised by a route.
HTTPException(op, sid, status_code, detail) ==
    [op |-> op, sid |-> sid, http |-> status_code, status |-> None, message |-> None,
     error |-> detail, username |-> None, twofa_method |-> None,
     verification_code |-> None, result |-> None, save |-> None]

NoReturn == HTTPException("none", None, 0, None)

SessionNotFound == "Session not found or expired"
InvalidSessionState == "Invalid session state"
NoFetcher == "No fetcher associated with session"

\* save_update with the result of save_auth_state ignored.
save_update_unchecked(reg, sid, success, username) ==
    update_state(reg, sid, SUCCESS, None, username, FALSE, None)

\* The three routes' handling of (success, username) = save_auth_state(account).
save_update(reg, sid, success, username) ==
    IF success THEN update_state(reg, sid, SUCCESS, None, username, FALSE, None)
    ELSE update_state(reg, sid, ERROR, "Failed to save auth state", None, FALSE, None)

save_response(op, sid, success, username) ==
    IF success
    THEN [LoginResponse(op, sid, "success", "Login successful", None, username,
                        None, None)
            EXCEPT !.result = LOGGED_IN, !.save = "saved"]
    ELSE [LoginResponse(op, sid, "error", None, "Failed to save auth state", None,
                        None, None)
            EXCEPT !.result = LOGGED_IN, !.save = "failed"]

\* credentials_update with requires_2fa left out of the mobile branch.
credentials_update_method_only(reg, sid, r) ==
    CASE r.state = TWOFA_MOBILE ->
           update_state(reg, sid, WAITING_MOBILE, None, None, FALSE, "mobile")
      [] r.state \in {TWOFA_APP, TWOFA_SMS} ->
           update_state(reg, sid, WAITING_2FA, None, None, TRUE, r.twofa_method)
      [] r.state = PS_CAPTCHA ->
           update_state(reg, sid, CAPTCHA, r.error_message, None, FALSE, None)
      [] OTHER ->
           update_state(reg, sid, ERROR, Or(r.error_message, "Unknown page state"),
                        None, FALSE, None)

\* credentials_update with the mobile branch folded into the code branch.
credentials_update_mobile_as_code(reg, sid, r) ==
    CASE r.state \in {TWOFA_MOBILE, TWOFA_APP, TWOFA_SMS} ->
           update_state(reg, sid, WAITING_2FA, None, None, TRUE, r.twofa_method)
      [] r.state = PS_CAPTCHA ->
           update_state(reg, sid, CAPTCHA, r.error_message, None, FALSE, None)
      [] OTHER ->
           update_state(reg, sid, ERROR, Or(r.error_message, "Unknown page state"),
                        None, FALSE, None)
\* credentials_update with the session put back to INITIALIZED after a
\* rejected password.
credentials_update_retry(reg, sid, r) ==
    CASE r.state = TWOFA_MOBILE ->
           update_state(reg, sid, WAITING_MOBILE, None, None, TRUE, "mobile")
      [] r.state \in {TWOFA_APP, TWOFA_SMS} ->
           update_state(reg, sid, WAITING_2FA, None, None, TRUE, r.twofa_method)
      [] r.state = TWOFA_SECURITY_KEY ->
           update_state(reg, sid, ERROR, r.error_message, None, FALSE, None)
      [] r.state = PS_CAPTCHA ->
           update_state(reg, sid, CAPTCHA, r.error_message, None, FALSE, None)
      [] r.state = LOGIN_ERROR ->
           update_state(reg, sid, INITIALIZED, r.error_message, None, FALSE, None)
      [] OTHER ->
           update_state(reg, sid, ERROR, Or(r.error_message, "Unknown page state"),
                        None, FALSE, None)

\* submit_credentials: the state written for a result other than LOGGED_IN.
credentials_update(reg, sid, r) ==
    CASE r.state = TWOFA_MOBILE ->
           update_state(reg, sid, WAITING_MOBILE, None, None, TRUE, "mobile")
      [] r.state \in {TWOFA_APP, TWOFA_SMS} ->
           update_state(reg, sid, WAITING_2FA, None, None, TRUE, r.twofa_method)
      [] r.state = TWOFA_SECURITY_KEY ->
           update_state(reg, sid, ERROR, r.error_message, None, FALSE, None)
      [] r.state = PS_CAPTCHA ->
           update_state(reg, sid, CAPTCHA, r.error_message, None, FALSE, None)
      [] r.state = LOGIN_ERROR ->
           update_state(reg, sid, ERROR, r.error_message, None, FALSE, None)
      [] OTHER ->
           update_state(reg, sid, ERROR, Or(r.error_message, "Unknown page state"),
                        None, FALSE, None)

\* submit_credentials: the response for a result other than LOGGED_IN.
credentials_response(sid, r) ==
    CASE r.state = TWOFA_MOBILE ->
           LoginResponse("submit_credentials", sid, "waiting_mobile",
               "Approve the login request on your GitHub Mobile app", None, None,
               "mobile", r.verification_code)
      [] r.state \in {TWOFA_APP, TWOFA_SMS} ->
           LoginResponse("submit_credentials", sid, "waiting_2fa",
               "Enter your 2FA code", None, None, r.twofa_method, None)
      [] r.state = TWOFA_SECURITY_KEY ->
           LoginResponse("submit_credentials", sid, "error", None,
               Or(r.error_message,
                  "Security key 2FA not supported. Please configure authenticator app."),
               None, None, None)
      [] r.state = PS_CAPTCHA ->
           LoginResponse("submit_credentials", sid, "captcha", None,
               Or(r.error_message, "CAPTCHA required. Use --headed-login flag."),
               None, None, None)
      [] r.state = LOGIN_ERROR ->
           LoginResponse("submit_credentials", sid, "error", None,
               Or(r.error_message, "Login failed"), None, None, None)
      [] OTHER ->
           LoginResponse("submit_credentials", sid, "error", None,
               Or(r.error_message, "Unknown page state after credentials"),
               None, None, None)

\* twofa_update with no state written.
twofa_update_unwritten(reg, sid, r) == reg

\* twofa_update without the retry branch.
twofa_update_no_retry(reg, sid, r) ==
    update_state(reg, sid, ERROR, Or(r.error_message, "Unknown state after 2FA"),
                 None, FALSE, None)

\* submit_2fa: the state written for a result other than LOGGED_IN.
twofa_update(reg, sid, r) ==
    IF r.state = LOGIN_ERROR
    THEN update_state(reg, sid, WAITING_2FA, None, None, FALSE, None)
    ELSE update_state(reg, sid, ERROR, Or(r.error_message, "Unknown state after 2FA"),
                      None, FALSE, None)

\* submit_2fa: the response for a result other than LOGGED_IN.
twofa_response(sid, r) ==
    IF r.state = LOGIN_ERROR
    THEN LoginResponse("submit_2fa", sid, "waiting_2fa", None,
             Or(r.error_message, "Invalid 2FA code, please try again"), None, None, None)
    ELSE LoginResponse("submit_2fa", sid, "error", None,
             Or(r.error_message, "Unknown state after 2FA submission"), None, None, None)

\* wait_for_mobile_2fa: the state written for a result other than LOGGED_IN.
mobile_update(reg, sid, r) ==
    CASE r.state = TWOFA_MOBILE -> reg
      [] r.state = LOGIN_ERROR ->
           update_state(reg, sid, ERROR, r.error_message, None, FALSE, None)
      [] OTHER ->
           update_state(reg, sid, ERROR, Or(r.error_message, "Unexpected state"),
                        None, FALSE, None)

\* wait_for_mobile_2fa: the response for a result other than LOGGED_IN.
mobile_response(sid, r) ==
    CASE r.state = TWOFA_MOBILE ->
           LoginResponse("wait_for_mobile_2fa", sid, "waiting_mobile",
               "Mobile approval timed out. Try again.", r.error_message, None,
               "mobile", None)
      [] r.state = LOGIN_ERROR ->
           LoginResponse("wait_for_mobile_2fa", sid, "error", None,
               Or(r.error_message, "Mobile 2FA failed"), None, None, None)
      [] OTHER ->
           LoginResponse("wait_for_mobile_2fa", sid, "error", None,
               Or(r.error_message, "Unexpected state during mobile wait"),
               None, None, None)

\* route_update registering the session again when it is gone.
route_update_upsert(op, reg, sid, r) ==
    LET again == IF sid \in DOMAIN reg THEN reg
                 ELSE [s \in DOMAIN reg \cup {sid} |->
                         IF s = sid THEN NewSession("default") ELSE reg[s]] IN
    CASE op = "submit_credentials" -> credentials_update(again, sid, r)
      [] op = "submit_2fa" -> twofa_update(again, sid, r)
      [] OTHER -> mobile_update(again, sid, r)

\* The state each flow route writes for a result other than LOGGED_IN.
route_update(op, reg, sid, r) ==
    CASE op = "submit_credentials" -> credentials_update(reg, sid, r)
      [] op = "submit_2fa" -> twofa_update(reg, sid, r)
      [] OTHER -> mobile_update(reg, sid, r)

route_response(op, sid, r) ==
    [(CASE op = "submit_credentials" -> credentials_response(sid, r)
        [] op = "submit_2fa" -> twofa_response(sid, r)
        [] OTHER -> mobile_response(sid, r))
       EXCEPT !.result = r.state]

\* status_map with the state's own value as the tag.
status_map_state_value(state) == state

\* get_login_status: status_map.
status_map(state) ==
    CASE state = INITIALIZED -> "initialized"
      [] state = SUBMITTING_CREDENTIALS -> "submitting"
      [] state = WAITING_2FA -> "waiting_2fa"
      [] state = WAITING_MOBILE -> "waiting_mobile"
      [] state = SUBMITTING_2FA -> "submitting"
      [] state = SUCCESS -> "success"
      [] state = ERROR -> "error"
      [] state = CAPTCHA -> "captcha"
      [] OTHER -> "error"

(***************************************************************************)
(* State.                                                                  *)
(***************************************************************************)
VARIABLES
    sessions,      \* the manager's registry: session id -> session record
    fetchers,      \* the session ids the manager holds a fetcher for
    unissued,      \* the session ids create_session has yet to hand out
    fetcher,       \* each LoginFetcher's _page, _context, _browser, _playwright
                   \* (TRUE: set, FALSE: None)
    page,          \* the page the remote site shows each fetcher's browser
    resource,      \* a recording double of each fetcher's browser
    cancel_calls,  \* the cancel calls that found each session
    auth_state,    \* what ghinbox.auth holds per account: storage state, username
    tasks,         \* the route handlers suspended in an await (a bag)
    lastReturn,    \* what the handler that returned last returned
    now,           \* the event loop's clock, in ticks
    poller         \* a call of wait_for_mobile_approval with its timing:
                   \* its arguments, its locals and where it stands

vars == <<sessions, fetchers, unissued, fetcher, page, resource, cancel_calls,
          auth_state, tasks, lastReturn, now, poller>>

\* LoginFetcher.__init__
NewFetcher == [page |-> FALSE, context |-> FALSE, browser |-> FALSE,
               playwright |-> FALSE]

\* LoginFetcher.start, when it succeeds.
StartedFetcher == [page |-> TRUE, context |-> TRUE, browser |-> TRUE,
                   playwright |-> TRUE]

\* The double: attached (start_login attached the fetcher to its session),
\* close_calls (calls of LoginFetcher.close), closes (teardown calls per
\* part), page_closed / context_closed (the teardown has completed),
\* released (a call of close has returned), late_access (a page or context
\* call was started after released), owners (the session ids the manager
\* holds this fetcher under), filled (the selector of the code input the
\* last fill of submit_2fa_code went to), clicked (a click was started),
\* navigated (detect_page_state started a page.goto to the mobile page).
NewResource ==
    [attached |-> FALSE, close_calls |-> 0,
     closes |-> [page |-> 0, context |-> 0, browser |-> 0, playwright |-> 0],
     page_closed |-> FALSE, context_closed |-> FALSE, released |-> FALSE,
     late_access |-> FALSE, owners |-> {}, filled |-> None, clicked |-> FALSE,
     navigated |-> FALSE]

\* A handler: its route, its session id, the await it is suspended in, and
\* its locals `result` and `username`.
Task(op, sid, pc, result, username) ==
    [op |-> op, sid |-> sid, pc |-> pc, result |-> result, username |-> username]

\* No call of wait_for_mobile_approval is being timed.
NoPoller ==
    [pc |-> "idle", sid |-> None, timeout_seconds |-> 0, poll_interval |-> 0,
     start_time |-> 0, elapsed |-> 0, poll_count |-> 0, result |-> NoResult,
     seen |-> {}, slack |-> 0]

Init ==
    /\ sessions = [s \in {} |-> NewSession("default")]
    /\ fetchers = {}
    /\ unissued = {"s1"}
    /\ fetcher = [s \in SessionIds |-> NewFetcher]
    /\ page = [s \in SessionIds |-> Fixture("blank")]
    /\ resource = [s \in SessionIds |-> NewResource]
    /\ cancel_calls = [s \in SessionIds |-> 0]
    /\ auth_state = [a \in Accounts |-> [saved |-> FALSE, username |-> None]]
    /\ tasks = EmptyBag
    /\ lastReturn = NoReturn
    /\ now = 0
    /\ poller = NoPoller

\* A call on the page (or context) of sid's fetcher starts.
Touch(res, sid) ==
    [res EXCEPT ![sid].late_access = @ \/ res[sid].released]

\* The handlers in flight other than h.
Others(h) == tasks (-) SetToBag({h})

\* A handler suspends in an await (or stays suspended, in its next one);
\* `rest` are the other handlers in flight.
Suspend(rest, task) ==
    /\ BagCardinality(rest) < MaxTasks
    /\ tasks' = rest (+) SetToBag({task})

\* A handler returns `response`, the registry being `reg`.
Finish(rest, reg, response) ==
    /\ sessions' = reg
    /\ tasks' = rest
    /\ lastReturn' = response

\* A handler that raises or returns before its first await.
Reject(response) ==
    /\ lastReturn' = response
    /\ UNCHANGED <<sessions, tasks, resource>>

(***************************************************************************)
(* The routes after the fetcher operation has returned `r`: on LOGGED_IN   *)
(* save_auth_state is entered, otherwise the state is written and the      *)
(* response returned.  Sets sessions, tasks, lastReturn and resource.      *)
(***************************************************************************)
Returned(rest, op, sid, r, reg) ==
    IF r.state = LOGGED_IN
    THEN IF ~fetcher[sid].context \/ ~fetcher[sid].page
         THEN /\ Finish(rest, save_update(reg, sid, FALSE, None),
                        save_response(op, sid, FALSE, None))
              /\ UNCHANGED resource
         ELSE /\ sessions' = reg
              /\ Suspend(rest, Task(op, sid, "save_goto", r, None))
              /\ resource' = Touch(resource, sid)
              /\ UNCHANGED lastReturn
    ELSE /\ Finish(rest, route_update(op, reg, sid, r), route_response(op, sid, r))
         /\ UNCHANGED resource

\* wait_for_mobile_approval: the loop after one detect_page_state.
Polled(rest, op, sid, r, reg) ==
    IF op = "wait_for_mobile_2fa" /\ r.state \in {TWOFA_MOBILE, UNKNOWN}
    THEN /\ sessions' = reg
         /\ Suspend(rest, Task(op, sid, "poll_sleep", NoResult, None))
         /\ UNCHANGED <<lastReturn, resource>>
    ELSE Returned(rest, op, sid, r, reg)

\* EnterDetect without the `self._page is None` check.
EnterDetect_unchecked(rest, op, sid, reg) ==
    /\ sessions' = reg
    /\ Suspend(rest, Task(op, sid, "detect", NoResult, None))
    /\ resource' = Touch(resource, sid)
    /\ UNCHANGED lastReturn
\* EnterDetect with the fetcher writing the session's state itself.
EnterDetect_writes_state(rest, op, sid, reg) ==
    /\ sessions' = update_state(reg, sid, WAITING_2FA, None, None, FALSE, None)
    /\ Suspend(rest, Task(op, sid, "detect", NoResult, None))
    /\ resource' = Touch(resource, sid)
    /\ UNCHANGED lastReturn

\* detect_page_state is entered: without a page it answers UNKNOWN at once,
\* otherwise its first probe starts.
EnterDetect(rest, op, sid, reg) ==
    IF ~fetcher[sid].page
    THEN Polled(rest, op, sid, UnknownResult(None), reg)
    ELSE /\ sessions' = reg
         /\ Suspend(rest, Task(op, sid, "detect", NoResult, None))
         /\ resource' = Touch(resource, sid)
         /\ UNCHANGED lastReturn

\* wait_for_mobile_approval: the head of the loop.
MobileLoop(rest, sid, reg) ==
    \E timed_out \in BOOLEAN :
      IF timed_out
      THEN IF fetcher[sid].page
           THEN /\ sessions' = reg
                /\ Suspend(rest, Task("wait_for_mobile_2fa", sid, "timeout_screenshot", NoResult, None))
                /\ resource' = Touch(resource, sid)
                /\ UNCHANGED lastReturn
           ELSE Returned(rest, "wait_for_mobile_2fa", sid, MobileTimeout, reg)
      ELSE EnterDetect(rest, "wait_for_mobile_2fa", sid, reg)

\* Whether the await on the page that a task is suspended in can return
\* (rather than raise): not once the page is closed.
PageAnswers(sid) == ~resource[sid].page_closed
ContextAnswers(sid) == ~resource[sid].context_closed

(***************************************************************************)
(* start_login                                                             *)
(***************************************************************************)
\* create_session, LoginFetcher(), and the await of fetcher.start() begins.
start_login_call(account) ==
    /\ \E sid \in unissued :
         /\ sessions' = [s \in DOMAIN sessions \cup {sid} |->
                           IF s = sid THEN NewSession(account) ELSE sessions[s]]
         /\ unissued' = unissued \ {sid}
         /\ Suspend(tasks, Task("start_login", sid, "start", NoResult, None))
    /\ UNCHANGED <<now, poller, fetchers, fetcher, page, resource, cancel_calls, auth_state,
                   lastReturn>>

\* start_login_done with every session attached to the fetcher made first.
start_login_done_shared(h) ==
    /\ h.op = "start_login" /\ h.pc = "start"
    /\ LET sid == h.sid IN
       \E ok \in BOOLEAN :
         IF ok
         THEN /\ fetcher' = [fetcher EXCEPT ![sid] = StartedFetcher]
              /\ page' = [page EXCEPT ![sid] = Fixture("login")]
              /\ fetchers' = set_fetcher(fetchers, sessions, sid)
              /\ resource' = [resource EXCEPT
                                ![sid].attached = sid \in DOMAIN sessions,
                                !["s1"].owners = set_fetcher(@, sessions, sid)]
              /\ Finish(Others(h), sessions,
                   LoginResponse("start_login", sid, "initialized",
                       "Ready for credentials", None, None, None, None))
         ELSE /\ Finish(Others(h), update_state(sessions, sid, ERROR, ExcText, None, FALSE, None),
                   LoginResponse("start_login", sid, "error", None,
                       "Failed to start login session: exception text",
                       None, None, None))
              /\ UNCHANGED <<fetcher, page, fetchers, resource>>
    /\ UNCHANGED <<unissued, now, poller, cancel_calls, auth_state>>
\* start_login_done with the failure of fetcher.start() not written to the
\* session.
start_login_done_unrecorded(h) ==
    /\ h.op = "start_login" /\ h.pc = "start"
    /\ LET sid == h.sid IN
       \E ok \in BOOLEAN :
         IF ok
         THEN /\ fetcher' = [fetcher EXCEPT ![sid] = StartedFetcher]
              /\ page' = [page EXCEPT ![sid] = Fixture("login")]
              /\ fetchers' = set_fetcher(fetchers, sessions, sid)
              /\ resource' = [resource EXCEPT
                                ![sid].attached = sid \in DOMAIN sessions,
                                ![sid].owners = set_fetcher(@, sessions, sid)]
              /\ Finish(Others(h), sessions,
                   LoginResponse("start_login", sid, "initialized",
                       "Ready for credentials", None, None, None, None))
         ELSE /\ Finish(Others(h), sessions,
                   LoginResponse("start_login", sid, "error", None,
                       "Failed to start login session: exception text",
                       None, None, None))
              /\ UNCHANGED <<fetcher, page, fetchers, resource>>
    /\ UNCHANGED <<unissued, now, poller, cancel_calls, auth_state>>

\* fetcher.start() returns (the fetcher is attached) or raises.
start_login_done(h) ==
    /\ h.op = "start_login" /\ h.pc = "start"
    /\ LET sid == h.sid IN
       \E ok \in BOOLEAN :
         IF ok
         THEN /\ fetcher' = [fetcher EXCEPT ![sid] = StartedFetcher]
              /\ page' = [page EXCEPT ![sid] = Fixture("login")]
              /\ fetchers' = set_fetcher(fetchers, sessions, sid)
              /\ resource' = [resource EXCEPT
                                ![sid].attached = sid \in DOMAIN sessions,
                                ![sid].owners = set_fetcher(@, sessions, sid)]
              /\ Finish(Others(h), sessions,
                   LoginResponse("start_login", sid, "initialized",
                       "Ready for credentials", None, None, None, None))
         ELSE /\ Finish(Others(h), update_state(sessions, sid, ERROR, ExcText, None, FALSE, None),
                   LoginResponse("start_login", sid, "error", None,
                       "Failed to start login session: exception text",
                       None, None, None))
              /\ UNCHANGED <<fetcher, page, fetchers, resource>>
    /\ UNCHANGED <<unissued, now, poller, cancel_calls, auth_state>>

(***************************************************************************)
(* submit_credentials                                                      *)
(***************************************************************************)
\* The route up to the first await of LoginFetcher.submit_credentials.
submit_credentials_call(sid) ==
    /\ IF sid \notin DOMAIN sessions
       THEN Reject(HTTPException("submit_credentials", sid, 404, SessionNotFound))
       ELSE IF sessions[sid].state # INITIALIZED
       THEN Reject(HTTPException("submit_credentials", sid, 400, InvalidSessionState))
       ELSE IF sid \notin fetchers
       THEN Reject(HTTPException("submit_credentials", sid, 500, NoFetcher))
       ELSE LET reg == update_state(sessions, sid, SUBMITTING_CREDENTIALS,
                                    None, None, FALSE, None) IN
            IF ~fetcher[sid].page
            THEN Returned(tasks, "submit_credentials", sid, BrowserNotStarted, reg)
            ELSE /\ sessions' = reg
                 /\ Suspend(tasks, Task("submit_credentials", sid, "wait_for_selector", NoResult, None))
                 /\ resource' = Touch(resource, sid)
                 /\ UNCHANGED lastReturn
    /\ UNCHANGED <<fetchers, unissued, now, poller, fetcher, page, cancel_calls, auth_state>>

\* The awaits of LoginFetcher.submit_credentials, in their order.
credentials_next(pc) ==
    CASE pc = "wait_for_selector" -> "fill_login"
      [] pc = "fill_login" -> "fill_password"
      [] pc = "fill_password" -> "click"
      [] pc = "click" -> "wait_for_load_state"
      [] OTHER -> "settle"

\* One await of LoginFetcher.submit_credentials returns or raises.
submit_credentials_step(h) ==
    /\ h.op = "submit_credentials"
    /\ h.pc \in {"wait_for_selector", "fill_login", "fill_password", "click",
                        "wait_for_load_state"}
    /\ LET sid == h.sid
           pc == h.pc
           next == credentials_next(pc) IN
       \E ok \in BOOLEAN :
         IF ok /\ PageAnswers(sid)
         THEN /\ \E p \in (IF pc = "click" THEN Pages ELSE {page[sid]}) :
                   page' = [page EXCEPT ![sid] = p]
              /\ Suspend(Others(h), [h EXCEPT !.pc = next])
              /\ resource' = IF next = "settle" THEN resource
                             ELSE IF next = "click"
                             THEN [Touch(resource, sid) EXCEPT ![sid].clicked = TRUE]
                             ELSE Touch(resource, sid)
              /\ UNCHANGED <<sessions, lastReturn>>
         ELSE /\ Returned(Others(h), "submit_credentials", sid, ErrorSubmittingCredentials,
                          sessions)
              /\ UNCHANGED page
    /\ UNCHANGED <<fetchers, unissued, now, poller, fetcher, cancel_calls, auth_state>>

(***************************************************************************)
(* submit_2fa                                                              *)
(***************************************************************************)
\* submit_2fa_call without the check of the session state.
submit_2fa_call_any_state(sid) ==
    /\ IF sid \notin DOMAIN sessions
       THEN Reject(HTTPException("submit_2fa", sid, 404, SessionNotFound))
       ELSE IF sid \notin fetchers
       THEN Reject(HTTPException("submit_2fa", sid, 500, NoFetcher))
       ELSE LET reg == update_state(sessions, sid, SUBMITTING_2FA,
                                    None, None, FALSE, None) IN
            IF ~fetcher[sid].page
            THEN Returned(tasks, "submit_2fa", sid, BrowserNotStarted, reg)
            ELSE /\ sessions' = reg
                 /\ Suspend(tasks, Task("submit_2fa", sid, "otp_count", NoResult, None))
                 /\ resource' = Touch(resource, sid)
                 /\ UNCHANGED lastReturn
    /\ UNCHANGED <<fetchers, unissued, now, poller, fetcher, page, cancel_calls, auth_state>>

\* The route up to the first await of LoginFetcher.submit_2fa_code.
submit_2fa_call(sid) ==
    /\ IF sid \notin DOMAIN sessions
       THEN Reject(HTTPException("submit_2fa", sid, 404, SessionNotFound))
       ELSE IF sessions[sid].state # WAITING_2FA
       THEN Reject(HTTPException("submit_2fa", sid, 400, InvalidSessionState))
       ELSE IF sid \notin fetchers
       THEN Reject(HTTPException("submit_2fa", sid, 500, NoFetcher))
       ELSE LET reg == update_state(sessions, sid, SUBMITTING_2FA,
                                    None, None, FALSE, None) IN
            IF ~fetcher[sid].page
            THEN Returned(tasks, "submit_2fa", sid, BrowserNotStarted, reg)
            ELSE /\ sessions' = reg
                 /\ Suspend(tasks, Task("submit_2fa", sid, "otp_count", NoResult, None))
                 /\ resource' = Touch(resource, sid)
                 /\ UNCHANGED lastReturn
    /\ UNCHANGED <<fetchers, unissued, now, poller, fetcher, page, cancel_calls, auth_state>>

\* otp_selectors with the SMS input tried first.
otp_selectors_sms_first == <<"sms_otp", "app_otp", "app_totp", "one-time-code">>

\* submit_2fa_code: the selectors of the code input, in the order tried.
otp_selectors == <<"app_otp", "app_totp", "sms_otp", "one-time-code">>

\* Whether locator(selector).count() > 0 on the page p.
Present(p, selector) ==
    CASE selector = "app_otp" -> p.appOtp
      [] selector = "app_totp" -> p.appTotp
      [] selector = "sms_otp" -> p.smsOtp
      [] OTHER -> p.genericOtp

\* submit_2fa_code: the loop over otp_selectors from the i-th on, left at the
\* first one present; found_selector is None when it runs out.
RECURSIVE otp_search(_, _)
otp_search(p, i) ==
    IF i > Len(otp_selectors) THEN None
    ELSE IF Present(p, otp_selectors[i]) THEN otp_selectors[i]
    ELSE otp_search(p, i + 1)

found_selector(p) == otp_search(p, 1)

\* submit_2fa_code: whether one of otp_selectors matches the page.
otp_input_found(p) == found_selector(p) # None

\* The awaits of LoginFetcher.submit_2fa_code, in their order.
twofa_next(pc) ==
    CASE pc = "otp_count" -> "fill_code"
      [] pc = "fill_code" -> "click"
      [] pc = "click" -> "wait_for_load_state"
      [] OTHER -> "settle"

\* One await of LoginFetcher.submit_2fa_code returns or raises.
submit_2fa_code_step(h) ==
    /\ h.op = "submit_2fa"
    /\ h.pc \in {"otp_count", "fill_code", "click", "wait_for_load_state"}
    /\ LET sid == h.sid
           pc == h.pc
           next == twofa_next(pc) IN
       \E ok \in BOOLEAN :
         IF ok /\ PageAnswers(sid)
         THEN IF pc = "otp_count" /\ ~otp_input_found(page[sid])
              THEN /\ Returned(Others(h), "submit_2fa", sid, No2FAInput, sessions)
                   /\ UNCHANGED page
              ELSE /\ \E p \in (IF pc = "click" THEN Pages ELSE {page[sid]}) :
                        page' = [page EXCEPT ![sid] = p]
                   /\ Suspend(Others(h), [h EXCEPT !.pc = next])
                   /\ resource' =
                        IF next = "settle" THEN resource
                        ELSE IF next = "fill_code"
                        THEN [Touch(resource, sid) EXCEPT
                                ![sid].filled = found_selector(page[sid])]
                        ELSE IF next = "click"
                        THEN [Touch(resource, sid) EXCEPT ![sid].clicked = TRUE]
                        ELSE Touch(resource, sid)
                   /\ UNCHANGED <<sessions, lastReturn>>
         ELSE /\ Returned(Others(h), "submit_2fa", sid, ErrorSubmitting2FA, sessions)
              /\ UNCHANGED page
    /\ UNCHANGED <<fetchers, unissued, now, poller, fetcher, cancel_calls, auth_state>>

\* asyncio.sleep(0.5) of submit_credentials / submit_2fa_code is over:
\* detect_page_state is entered.
settle_done(h) ==
    /\ h.pc = "settle"
    /\ EnterDetect(Others(h), h.op, h.sid, sessions)
    /\ UNCHANGED <<fetchers, unissued, now, poller, fetcher, page, cancel_calls, auth_state>>

(***************************************************************************)
(* detect_page_state                                                       *)
(***************************************************************************)
\* Whether detect_page_state reaches the extraction of the digits: the page
\* is at the mobile URL and neither the user menu nor a captcha is on it.
ExtractsCode(p) == ~p.userMenu /\ ~p.captcha /\ p.url = "mobile"

\* The probes of detect_page_state return (the page is classified, and at the
\* mobile URL the extraction of the digits starts) or one raises.
detect_done(h) ==
    /\ h.pc = "detect"
    /\ LET sid == h.sid
           op == h.op
           p == page[sid] IN
       \E ok \in BOOLEAN :
         LET r == IF ok /\ PageAnswers(sid)
                  THEN detect_page_state(p)
                  ELSE ErrorDetecting IN
         IF r.state = NAVIGATE
         THEN /\ Suspend(Others(h), [h EXCEPT !.pc = "nav_goto"])
              /\ resource' = [Touch(resource, sid) EXCEPT ![sid].navigated = TRUE]
              /\ UNCHANGED <<sessions, lastReturn>>
         ELSE IF ok /\ PageAnswers(sid) /\ ExtractsCode(p)
         THEN /\ Suspend(Others(h), [h EXCEPT !.pc = "extract", !.result = r])
              /\ resource' = Touch(resource, sid)
              /\ UNCHANGED <<sessions, lastReturn>>
         ELSE Polled(Others(h), op, sid, r, sessions)
    /\ UNCHANGED <<fetchers, unissued, now, poller, fetcher, page, cancel_calls, auth_state>>

\* _extract_mobile_verification_code returns the digits it found, or one of
\* its probes raises and it returns None: the result stays TWOFA_MOBILE.
extract_done(h) ==
    /\ h.pc = "extract"
    /\ LET sid == h.sid IN
       \E ok \in BOOLEAN :
         LET r == IF ok /\ PageAnswers(sid) THEN h.result
                  ELSE [h.result EXCEPT !.verification_code = None] IN
         Polled(Others(h), h.op, sid, r, sessions)
    /\ UNCHANGED <<fetchers, unissued, now, poller, fetcher, page, cancel_calls, auth_state>>

\* page.goto(href) to the mobile page returns or raises.
nav_goto_done(h) ==
    /\ h.pc = "nav_goto"
    /\ LET sid == h.sid
           op == h.op IN
       \E ok \in BOOLEAN :
         IF ok /\ PageAnswers(sid)
         THEN /\ \E p \in Pages : page' = [page EXCEPT ![sid] = p]
              /\ Suspend(Others(h), [h EXCEPT !.pc = "nav_settle"])
              /\ UNCHANGED <<sessions, lastReturn, resource>>
         ELSE /\ Polled(Others(h), op, sid, ErrorDetecting, sessions)
              /\ UNCHANGED page
    /\ UNCHANGED <<fetchers, unissued, now, poller, fetcher, cancel_calls, auth_state>>

\* asyncio.sleep(0.5) after the navigation is over: detect_page_state again.
nav_settle_done(h) ==
    /\ h.pc = "nav_settle"
    /\ EnterDetect(Others(h), h.op, h.sid, sessions)
    /\ UNCHANGED <<fetchers, unissued, now, poller, fetcher, page, cancel_calls, auth_state>>

(***************************************************************************)
(* wait_for_mobile_2fa                                                     *)
(***************************************************************************)
\* The route up to the first await of LoginFetcher.wait_for_mobile_approval.
wait_for_mobile_2fa_call(sid) ==
    /\ IF sid \notin DOMAIN sessions
       THEN Reject(HTTPException("wait_for_mobile_2fa", sid, 404, SessionNotFound))
       ELSE IF sessions[sid].state # WAITING_MOBILE
       THEN Reject(HTTPException("wait_for_mobile_2fa", sid, 400, InvalidSessionState))
       ELSE IF sid \notin fetchers
       THEN Reject(HTTPException("wait_for_mobile_2fa", sid, 500, NoFetcher))
       ELSE IF ~fetcher[sid].page
       THEN Returned(tasks, "wait_for_mobile_2fa", sid, BrowserNotStarted, sessions)
       ELSE MobileLoop(tasks, sid, sessions)
    /\ UNCHANGED <<fetchers, unissued, now, poller, fetcher, page, cancel_calls, auth_state>>

\* asyncio.sleep(poll_interval) is over: the loop goes round.
poll_sleep_done(h) ==
    /\ h.pc = "poll_sleep"
    /\ MobileLoop(Others(h), h.sid, sessions)
    /\ UNCHANGED <<fetchers, unissued, now, poller, fetcher, page, cancel_calls, auth_state>>

\* save_debug_screenshot("mobile_2fa_timeout") is over (it swallows what the
\* screenshot raises): the timeout result is returned.
timeout_screenshot_done(h) ==
    /\ h.pc = "timeout_screenshot"
    /\ Returned(Others(h), h.op, h.sid, MobileTimeout, sessions)
    /\ UNCHANGED <<fetchers, unissued, now, poller, fetcher, page, cancel_calls, auth_state>>

(***************************************************************************)
(* save_auth_state, and the route's handling of what it returns            *)
(***************************************************************************)
\* save_auth_state returned (success, username) to the route.
Saved(h, success, username) ==
    Finish(Others(h), save_update(sessions, h.sid, success, username),
           save_response(h.op, h.sid, success, username))

\* page.goto("https://github.com") returns or raises.
save_goto_done(h) ==
    /\ h.pc = "save_goto"
    /\ LET sid == h.sid IN
       \E ok \in BOOLEAN :
         IF ok /\ PageAnswers(sid)
         THEN /\ \E p \in {Fixture("home"), Fixture("blank")} :
                   page' = [page EXCEPT ![sid] = p]
              /\ Suspend(Others(h), [h EXCEPT !.pc = "save_settle"])
              /\ UNCHANGED <<sessions, lastReturn>>
         ELSE /\ Saved(h, FALSE, None)
              /\ UNCHANGED page
    /\ UNCHANGED <<fetchers, unissued, now, poller, fetcher, resource, cancel_calls, auth_state>>

\* asyncio.sleep(0.5) is over: extract_username_async(self._page) starts.
save_settle_done(h) ==
    /\ h.pc = "save_settle"
    /\ LET sid == h.sid IN
       IF ~fetcher[sid].page
       THEN /\ Saved(h, FALSE, None)
            /\ UNCHANGED resource
       ELSE /\ Suspend(Others(h), [h EXCEPT !.pc = "save_extract"])
            /\ resource' = Touch(resource, sid)
            /\ UNCHANGED <<sessions, lastReturn>>
    /\ UNCHANGED <<fetchers, unissued, now, poller, fetcher, page, cancel_calls, auth_state>>

\* extract_username_async returns a username or None, or raises;
\* save_username; context.storage_state(path) starts.
save_extract_done(h) ==
    /\ h.pc = "save_extract"
    /\ LET sid == h.sid
           account == IF sid \in DOMAIN sessions THEN sessions[sid].account
                      ELSE "default" IN
       \E ok \in BOOLEAN, username \in {None, Octocat} :
         IF ok /\ PageAnswers(sid)
         THEN /\ auth_state' = IF username = None THEN auth_state
                               ELSE [auth_state EXCEPT ![account].username = username]
              /\ IF ~fetcher[sid].context
                 THEN /\ Saved(h, FALSE, None)
                      /\ UNCHANGED resource
                 ELSE /\ Suspend(Others(h), [h EXCEPT !.pc = "save_storage",
                                                 !.username = username])
                      /\ resource' = Touch(resource, sid)
                      /\ UNCHANGED <<sessions, lastReturn>>
         ELSE /\ Saved(h, FALSE, None)
              /\ UNCHANGED <<resource, auth_state>>
    /\ UNCHANGED <<fetchers, unissued, now, poller, fetcher, page, cancel_calls>>

\* context.storage_state(path) returns (the auth state is on disk) or raises.
save_storage_done(h) ==
    /\ h.pc = "save_storage"
    /\ LET sid == h.sid
           account == IF sid \in DOMAIN sessions THEN sessions[sid].account
                      ELSE "default" IN
       \E ok \in BOOLEAN :
         IF ok /\ ContextAnswers(sid)
         THEN /\ auth_state' = [auth_state EXCEPT ![account].saved = TRUE]
              /\ Saved(h, TRUE, h.username)
         ELSE /\ Saved(h, FALSE, None)
              /\ UNCHANGED auth_state
    /\ UNCHANGED <<fetchers, unissued, now, poller, fetcher, page, resource, cancel_calls>>

(***************************************************************************)
(* cancel_login and LoginFetcher.close                                     *)
(***************************************************************************)
\* The parts LoginFetcher.close tears down, in its order.
Stages == <<"page", "context", "browser", "playwright">>

\* The first part from `from` on that close finds set; 5 when there is none.
FirstSet(f, from) ==
    IF \E i \in from..4 : f[Stages[i]]
    THEN CHOOSE i \in from..4 : f[Stages[i]] /\ \A j \in from..(i - 1) : ~f[Stages[j]]
    ELSE 5

\* LoginFetcher.close from part `from` on, the fetchers being f and the
\* doubles res: the teardown of the next part that is set starts, or close
\* returns and the route removes the session and answers.
Closing(rest, sid, f, res, from) ==
    LET i == FirstSet(f[sid], from) IN
    IF i <= 4
    THEN /\ fetcher' = f
         /\ resource' = [res EXCEPT ![sid].closes[Stages[i]] = @ + 1]
         /\ Suspend(rest, Task("cancel_login", sid, Stages[i], NoResult, None))
         /\ UNCHANGED <<sessions, fetchers, lastReturn>>
    ELSE /\ fetcher' = f
         /\ resource' = [res EXCEPT ![sid].released = TRUE,
                                   ![sid].owners = @ \ {sid}]
         /\ fetchers' = fetchers \ {sid}
         /\ Finish(rest, remove_session(sessions, sid),
                   LoginResponse("cancel_login", sid, "error", "Session cancelled",
                                 None, None, None, None))

\* cancel_login_call answering "cancelled" for an id that has no session.
cancel_login_call_lenient(sid) ==
    /\ IF sid \notin DOMAIN sessions
       THEN /\ Reject(LoginResponse("cancel_login", sid, "error", "Session cancelled",
                                    None, None, None, None))
            /\ UNCHANGED <<fetchers, fetcher, cancel_calls>>
       ELSE /\ cancel_calls' = [cancel_calls EXCEPT ![sid] = @ + 1]
            /\ IF sid \in fetchers
               THEN Closing(tasks, sid, fetcher,
                            [resource EXCEPT ![sid].close_calls = @ + 1], 1)
               ELSE /\ fetchers' = fetchers \ {sid}
                    /\ Finish(tasks, remove_session(sessions, sid),
                         LoginResponse("cancel_login", sid, "error",
                             "Session cancelled", None, None, None, None))
                    /\ UNCHANGED <<fetcher, resource>>
    /\ UNCHANGED <<unissued, now, poller, page, auth_state>>

\* cancel_login_call removing the session without closing its fetcher.
cancel_login_call_no_close(sid) ==
    /\ IF sid \notin DOMAIN sessions
       THEN /\ Reject(HTTPException("cancel_login", sid, 404, SessionNotFound))
            /\ UNCHANGED <<fetchers, fetcher, cancel_calls>>
       ELSE /\ cancel_calls' = [cancel_calls EXCEPT ![sid] = @ + 1]
            /\ fetchers' = fetchers \ {sid}
            /\ Finish(tasks, remove_session(sessions, sid),
                 LoginResponse("cancel_login", sid, "error",
                     "Session cancelled", None, None, None, None))
            /\ UNCHANGED <<fetcher, resource>>
    /\ UNCHANGED <<unissued, now, poller, page, auth_state>>

\* The route up to the first await of fetcher.close().
cancel_login_call(sid) ==
    /\ IF sid \notin DOMAIN sessions
       THEN /\ Reject(HTTPException("cancel_login", sid, 404, SessionNotFound))
            /\ UNCHANGED <<fetchers, fetcher, cancel_calls>>
       ELSE /\ cancel_calls' = [cancel_calls EXCEPT ![sid] = @ + 1]
            /\ IF sid \in fetchers
               THEN Closing(tasks, sid, fetcher,
                            [resource EXCEPT ![sid].close_calls = @ + 1], 1)
               ELSE /\ fetchers' = fetchers \ {sid}
                    /\ Finish(tasks, remove_session(sessions, sid),
                         LoginResponse("cancel_login", sid, "error",
                             "Session cancelled", None, None, None, None))
                    /\ UNCHANGED <<fetcher, resource>>
    /\ UNCHANGED <<unissued, now, poller, page, auth_state>>

\* The teardown of one part returns (or raises, which close swallows): the
\* attribute is set to None and close goes on.
cancel_login_step(h) ==
    /\ h.op = "cancel_login"
    /\ LET sid == h.sid
           i == CHOOSE k \in 1..4 : Stages[k] = h.pc IN
       Closing(Others(h), sid,
               [fetcher EXCEPT ![sid][Stages[i]] = FALSE],
               [resource EXCEPT ![sid].page_closed = TRUE,
                                ![sid].context_closed = @ \/ i >= 2],
               i + 1)
    /\ UNCHANGED <<unissued, now, poller, page, cancel_calls, auth_state>>

(***************************************************************************)
(* get_login_status                                                        *)
(***************************************************************************)
\* get_login_status answering for an id that has no session.
get_login_status_lenient(sid) ==
    /\ lastReturn' =
         IF sid \notin DOMAIN sessions
         THEN LoginResponse("get_login_status", sid, "error", None, None, None,
                            None, None)
         ELSE LoginResponse("get_login_status", sid,
                  status_map(sessions[sid].state), None,
                  sessions[sid].error_message, sessions[sid].username,
                  IF sessions[sid].requires_2fa THEN sessions[sid].twofa_method
                  ELSE None,
                  None)
    /\ UNCHANGED <<sessions, fetchers, unissued, now, poller, fetcher, page, resource,
                   cancel_calls, auth_state, tasks>>

\* The route: the session's state, mapped to its status tag.
get_login_status(sid) ==
    /\ lastReturn' =
         IF sid \notin DOMAIN sessions
         THEN HTTPException("get_login_status", sid, 404, SessionNotFound)
         ELSE LoginResponse("get_login_status", sid,
                  status_map(sessions[sid].state), None,
                  sessions[sid].error_message, sessions[sid].username,
                  IF sessions[sid].requires_2fa THEN sessions[sid].twofa_method
                  ELSE None,
                  None)
    /\ UNCHANGED <<sessions, fetchers, unissued, now, poller, fetcher, page, resource,
                   cancel_calls, auth_state, tasks>>

(***************************************************************************)
(* The remote site                                                         *)
(***************************************************************************)
\* The login is approved or denied on the device, or the prompt expires:
\* the page waiting for the approval moves on by itself.
RemoteUpdate(sid) ==
    /\ fetcher[sid].page
    /\ page[sid] = Fixture("mobile")
    /\ \E p \in {Fixture("home"), Fixture("bad_login"), Fixture("login")} :
         page' = [page EXCEPT ![sid] = p]
    /\ UNCHANGED <<sessions, fetchers, unissued, now, poller, fetcher, resource, cancel_calls,
                   auth_state, tasks, lastReturn>>

Next ==
    \/ \E account \in Accounts : start_login_call(account)
    \/ \E h \in BagToSet(tasks) : start_login_done(h)
    \/ \E sid \in SessionIds : submit_credentials_call(sid)
    \/ \E h \in BagToSet(tasks) : submit_credentials_step(h)
    \/ \E sid \in SessionIds : submit_2fa_call(sid)
    \/ \E h \in BagToSet(tasks) : submit_2fa_code_step(h)
    \/ \E h \in BagToSet(tasks) : settle_done(h)
    \/ \E h \in BagToSet(tasks) : detect_done(h)
    \/ \E h \in BagToSet(tasks) : extract_done(h)
    \/ \E h \in BagToSet(tasks) : nav_goto_done(h)
    \/ \E h \in BagToSet(tasks) : nav_settle_done(h)
    \/ \E sid \in SessionIds : wait_for_mobile_2fa_call(sid)
    \/ \E h \in BagToSet(tasks) : poll_sleep_done(h)
    \/ \E h \in BagToSet(tasks) : timeout_screenshot_done(h)
    \/ \E h \in BagToSet(tasks) : save_goto_done(h)
    \/ \E h \in BagToSet(tasks) : save_settle_done(h)
    \/ \E h \in BagToSet(tasks) : save_extract_done(h)
    \/ \E h \in BagToSet(tasks) : save_storage_done(h)
    \/ \E sid \in SessionIds : cancel_login_call(sid)
    \/ \E h \in BagToSet(tasks) : cancel_login_step(h)
    \/ \E sid \in SessionIds : get_login_status(sid)
    \/ \E sid \in SessionIds : RemoteUpdate(sid)

Spec == Init /\ [][Next]_vars

(***************************************************************************)
(* The registry alone, with two sessions: sessions are created, their      *)
(* fetchers started and attached, read and cancelled.                      *)
(***************************************************************************)
RegistryIds == {"s1", "s2"}

InitRegistry ==
    /\ sessions = [s \in {} |-> NewSession("default")]
    /\ fetchers = {}
    /\ unissued = RegistryIds
    /\ fetcher = [s \in RegistryIds |-> NewFetcher]
    /\ page = [s \in RegistryIds |-> Fixture("blank")]
    /\ resource = [s \in RegistryIds |-> NewResource]
    /\ cancel_calls = [s \in RegistryIds |-> 0]
    /\ auth_state = [a \in Accounts |-> [saved |-> FALSE, username |-> None]]
    /\ tasks = EmptyBag
    /\ lastReturn = NoReturn
    /\ now = 0
    /\ poller = NoPoller

NextRegistry ==
    \/ \E account \in Accounts : start_login_call(account)
    \/ \E h \in BagToSet(tasks) : start_login_done(h)
    \/ \E sid \in RegistryIds : cancel_login_call(sid)
    \/ \E h \in BagToSet(tasks) : cancel_login_step(h)
    \/ \E sid \in RegistryIds : get_login_status(sid)

SpecRegistry == InitRegistry /\ [][NextRegistry]_vars

(***************************************************************************)
(* detect_page_state alone, on every page the probes can tell apart.       *)
(***************************************************************************)
\* The answers a page can give to the probes of detect_page_state; only a
\* page at the mobile URL carries the digits to confirm.  The inputs named
\* app_otp and with id app_totp answer one probe: appOtp stands for both.
\* mobileLink: no link to the mobile page, a link whose href reads as None,
\* a link with its href.
Probes ==
    {p \in [userMenu : BOOLEAN, captcha : BOOLEAN,
             url : {"other", "mobile", "webauthn"}, code : {None, MobileCode},
             mobileEl : BOOLEAN, mobileLink : {"none", "nohref", "href"},
             secKeyBtn : BOOLEAN, appOtp : BOOLEAN, appTotp : {FALSE},
             twofaText : BOOLEAN,
             smsOtp : BOOLEAN, genericOtp : BOOLEAN,
             flash : {None, "", " ", FlashText}, alt : {None, " ", FlashText},
             loginInput : BOOLEAN, passwordInput : BOOLEAN] :
       p.url # "mobile" => p.code = None}

\* A started fetcher whose browser shows any page.
InitClassify ==
    /\ sessions = [s \in SessionIds |-> NewSession("default")]
    /\ fetchers = SessionIds
    /\ unissued = {}
    /\ fetcher = [s \in SessionIds |-> StartedFetcher]
    /\ page \in [SessionIds -> Probes]
    /\ resource = [s \in SessionIds |-> NewResource]
    /\ cancel_calls = [s \in SessionIds |-> 0]
    /\ auth_state = [a \in Accounts |-> [saved |-> FALSE, username |-> None]]
    /\ tasks = EmptyBag
    /\ lastReturn = NoReturn
    /\ now = 0
    /\ poller = NoPoller

\* detect_page_state follows the mobile link of a security-key page and
\* detects again on the page the site serves then.
detect_page_state_navigate(sid) ==
    /\ lastReturn = NoReturn
    /\ detect_page_state(page[sid]).state = NAVIGATE
    /\ \E kind \in PageKinds : page' = [page EXCEPT ![sid] = Fixture(kind)]
    /\ resource' = [resource EXCEPT ![sid].navigated = TRUE]
    /\ UNCHANGED <<sessions, fetchers, unissued, now, poller, fetcher, cancel_calls,
                   auth_state, tasks, lastReturn>>

\* detect_page_state returns its PageStateResult for the page shown.
detect_page_state_return(sid) ==
    /\ lastReturn = NoReturn
    /\ detect_page_state(page[sid]).state # NAVIGATE
    /\ lastReturn' = [NoReturn EXCEPT !.op = "detect_page_state", !.sid = sid,
                                      !.result = detect_page_state(page[sid])]
    /\ UNCHANGED <<sessions, fetchers, unissued, now, poller, fetcher, page, resource,
                   cancel_calls, auth_state, tasks>>

NextClassify ==
    \/ \E sid \in SessionIds : detect_page_state_navigate(sid)
    \/ \E sid \in SessionIds : detect_page_state_return(sid)

SpecClassify == InitClassify /\ [][NextClassify]_vars

(***************************************************************************)
(* _extract_mobile_verification_code alone, on pages at the mobile URL     *)
(* with any elements under its selectors and any body text.  Texts are     *)
(* sequences of characters.                                                *)
(***************************************************************************)
MaxElements == 2   \* the selectors of code_selectors a page has elements for
MaxBody == 5       \* the characters of a body text

\* Two digits, a letter and a blank.
Chars == {"4", "2", "a", " "}

\* str.isdigit() and the regular expression's \d; \w.
IsDigit(c) == c \in {"4", "2"}
IsWord(c) == c # " "

Texts(n) == UNION {[1..k -> Chars] : k \in 0..n}

\* code_selectors, in the order tried.
code_selectors ==
    <<".js-verification-code", "[data-target='device-verification.number']",
      ".verification-code", ".auth-form-body strong", ".Box-body strong",
      "div.text-center strong", ".flash strong">>

\* What a page answers for a selector: count() and first.text_content()
\* (null: text_content() is None).
NoElement == [count |-> 0, null |-> TRUE, text |-> <<>>]
Element(text) == [count |-> 1, null |-> FALSE, text |-> text]
Elements ==
    {[count |-> 1, null |-> TRUE, text |-> <<>>]}
      \cup {Element(t) : t \in {<<>>, <<"4">>, <<"4", "a", "2">>, <<"2", "2", "4">>}}

\* "".join(c for c in text if c.isdigit())
RECURSIVE Digits(_)
Digits(text) ==
    IF text = <<>> THEN ""
    ELSE (IF IsDigit(Head(text)) THEN Head(text) ELSE "") \o Digits(Tail(text))

\* len(digits)
NumDigits(text) == Cardinality({i \in DOMAIN text : IsDigit(text[i])})

\* selector_scan content with a single digit.
RECURSIVE selector_scan_one_digit(_, _)
selector_scan_one_digit(els, i) ==
    IF i > Len(code_selectors) THEN None
    ELSE LET el == els[code_selectors[i]] IN
         IF el.count > 0 /\ ~el.null /\ el.text # <<>> /\ NumDigits(el.text) >= 1
         THEN Digits(el.text)
         ELSE selector_scan_one_digit(els, i + 1)

\* The loop over code_selectors from the i-th on: the digits of the first
\* element found whose text has two of them, None when the loop runs out.
RECURSIVE selector_scan(_, _)
selector_scan(els, i) ==
    IF i > Len(code_selectors) THEN None
    ELSE LET el == els[code_selectors[i]] IN
         IF el.count > 0 /\ ~el.null /\ el.text # <<>> /\ NumDigits(el.text) >= 2
         THEN Digits(el.text)
         ELSE selector_scan(els, i + 1)

\* The positions where \b(\d{2})\b matches in the text.
TwoDigitTokens(text) ==
    {i \in 1..(Len(text) - 1) :
       /\ IsDigit(text[i]) /\ IsDigit(text[i + 1])
       /\ (i = 1 \/ ~IsWord(text[i - 1]))
       /\ (i + 1 = Len(text) \/ ~IsWord(text[i + 2]))}

\* re.findall(...)[0], or None.
first_match(text) ==
    LET at == TwoDigitTokens(text) IN
    IF at = {} THEN None
    ELSE LET i == CHOOSE k \in at : \A j \in at : k <= j IN text[i] \o text[i + 1]

\* The body of the try block, on the page p.
extract_mobile_verification_code(p) ==
    LET digits == selector_scan(p.els, 1) IN
    IF digits # None THEN digits ELSE first_match(p.body)

\* The elements of a page: at most MaxElements selectors have one.
ElementMaps ==
    {els \in [{code_selectors[i] : i \in 1..Len(code_selectors)}
                -> Elements \cup {NoElement}] :
       Cardinality({s \in DOMAIN els : els[s].count > 0}) <= MaxElements}

\* The body texts tried with the elements els: any text when at most one
\* selector has an element, one of two texts otherwise.
BodyTexts(els) ==
    IF Cardinality({s \in DOMAIN els : els[s].count > 0}) <= 1
    THEN Texts(MaxBody)
    ELSE {<<>>, <<"a", " ", "4", "2">>}

\* The page at the mobile URL with these elements and this body text.
ExtractPage(els, body) ==
    [els |-> els, body |-> body] @@ [Fixture("mobile") EXCEPT !.code = None]

\* A started fetcher on such a page.
InitExtract ==
    /\ sessions = [s \in SessionIds |-> NewSession("default")]
    /\ fetchers = SessionIds
    /\ unissued = {}
    /\ fetcher = [s \in SessionIds |-> StartedFetcher]
    /\ \E els \in ElementMaps : \E body \in BodyTexts(els) :
         page = [s \in SessionIds |-> ExtractPage(els, body)]
    /\ resource = [s \in SessionIds |-> NewResource]
    /\ cancel_calls = [s \in SessionIds |-> 0]
    /\ auth_state = [a \in Accounts |-> [saved |-> FALSE, username |-> None]]
    /\ tasks = EmptyBag
    /\ lastReturn = NoReturn
    /\ now = 0
    /\ poller = NoPoller

\* What detect_page_state returns at the mobile URL, the extraction having
\* given `code`; `message` is what the extraction logged last.
ExtractReturns(sid, code, message) ==
    /\ lastReturn' = [NoReturn EXCEPT
                        !.op = "detect_page_state", !.sid = sid,
                        !.message = message,
                        !.result = detect_page_state([page[sid] EXCEPT !.code = code])]
    /\ UNCHANGED <<sessions, fetchers, unissued, fetcher, page, resource,
                   cancel_calls, auth_state, tasks, now, poller>>

\* The probes of the extraction answer: detect_page_state returns with the
\* digits found, or with none.
extract_code_return(sid) ==
    /\ lastReturn = NoReturn
    /\ LET code == extract_mobile_verification_code(page[sid]) IN
       ExtractReturns(sid, code,
           IF code = None
           THEN "Could not find verification code on mobile 2FA page"
           ELSE "Found verification code")

\* A probe of the extraction raises: the except branch logs it and the
\* extraction gives None.
extract_code_raise(sid) ==
    /\ lastReturn = NoReturn
    /\ ExtractReturns(sid, None, "Error extracting verification code: exception text")

NextExtract ==
    \/ \E sid \in SessionIds : extract_code_return(sid)
    \/ \E sid \in SessionIds : extract_code_raise(sid)

SpecExtract == InitExtract /\ [][NextExtract]_vars

(***************************************************************************)
(* submit_2fa alone, called on a page with any of the code inputs.         *)
(***************************************************************************)
\* A two-factor page with any combination of the four code inputs.
OtpPages ==
    {[BlankPage EXCEPT !.twofaText = TRUE, !.appOtp = a, !.appTotp = b,
                       !.smsOtp = c, !.genericOtp = d] :
       a \in BOOLEAN, b \in BOOLEAN, c \in BOOLEAN, d \in BOOLEAN}

\* A session waiting for its code, its fetcher started and attached.
InitTwoFactor ==
    /\ sessions = [s \in SessionIds |->
                     [NewSession("default") EXCEPT !.state = WAITING_2FA,
                                                   !.requires_2fa = TRUE,
                                                   !.twofa_method = "app"]]
    /\ fetchers = SessionIds
    /\ unissued = {}
    /\ fetcher = [s \in SessionIds |-> StartedFetcher]
    /\ page \in [SessionIds -> OtpPages]
    /\ resource = [s \in SessionIds |->
                     [NewResource EXCEPT !.attached = TRUE, !.owners = {s}]]
    /\ cancel_calls = [s \in SessionIds |-> 0]
    /\ auth_state = [a \in Accounts |-> [saved |-> FALSE, username |-> None]]
    /\ tasks = EmptyBag
    /\ lastReturn = NoReturn
    /\ now = 0
    /\ poller = NoPoller

NextTwoFactor ==
    \/ \E sid \in SessionIds : submit_2fa_call(sid)
    \/ \E h \in BagToSet(tasks) : submit_2fa_code_step(h)
    \/ \E h \in BagToSet(tasks) : settle_done(h)
    \/ \E h \in BagToSet(tasks) : detect_done(h)
    \/ \E h \in BagToSet(tasks) : extract_done(h)
    \/ \E h \in BagToSet(tasks) : nav_goto_done(h)
    \/ \E h \in BagToSet(tasks) : nav_settle_done(h)
    \/ \E h \in BagToSet(tasks) : save_goto_done(h)
    \/ \E h \in BagToSet(tasks) : save_settle_done(h)
    \/ \E h \in BagToSet(tasks) : save_extract_done(h)
    \/ \E h \in BagToSet(tasks) : save_storage_done(h)

SpecTwoFactor == InitTwoFactor /\ [][NextTwoFactor]_vars

(***************************************************************************)
(* wait_for_mobile_approval alone, with its timing: the clock advances     *)
(* while the call is suspended in detect_page_state, in the sleep between  *)
(* two polls and in the screenshot of the timeout.                         *)
(***************************************************************************)
MaxTimeout == 3        \* timeout_seconds is drawn from 0..MaxTimeout
MaxPollInterval == 2   \* poll_interval is drawn from 1..MaxPollInterval
MaxDetectTime == 1     \* the ticks one detect_page_state can take
MaxLate == 1           \* the ticks asyncio.sleep can return late

\* A started fetcher on the mobile page.
InitPoller ==
    /\ sessions = [s \in SessionIds |->
                     [NewSession("default") EXCEPT !.state = WAITING_MOBILE]]
    /\ fetchers = SessionIds
    /\ unissued = {}
    /\ fetcher = [s \in SessionIds |-> StartedFetcher]
    /\ page = [s \in SessionIds |-> Fixture("mobile")]
    /\ resource = [s \in SessionIds |-> NewResource]
    /\ cancel_calls = [s \in SessionIds |-> 0]
    /\ auth_state = [a \in Accounts |-> [saved |-> FALSE, username |-> None]]
    /\ tasks = EmptyBag
    /\ lastReturn = NoReturn
    /\ now = 0
    /\ poller = NoPoller

\* wait_for_mobile_approval returns r.
ApprovalReturns(f, r) ==
    poller' = [f EXCEPT !.pc = "returned", !.result = r]
\* ApprovalLoop that gives up when the next sleep would pass the timeout.
ApprovalLoop_early(f, t) ==
    LET elapsed == t - f.start_time IN
    IF elapsed + f.poll_interval > f.timeout_seconds
    THEN poller' = [f EXCEPT !.pc = "screenshot", !.elapsed = elapsed]
    ELSE poller' = [f EXCEPT !.pc = "detect", !.elapsed = elapsed,
                             !.poll_count = @ + 1]

\* ApprovalLoop that tests the timeout one poll interval late.
ApprovalLoop_late(f, t) ==
    LET elapsed == t - f.start_time IN
    IF elapsed > f.timeout_seconds + f.poll_interval
    THEN poller' = [f EXCEPT !.pc = "screenshot", !.elapsed = elapsed]
    ELSE poller' = [f EXCEPT !.pc = "detect", !.elapsed = elapsed,
                             !.poll_count = @ + 1]

\* The head of the loop at time t: the timeout is tested, then either the
\* screenshot of the timeout or the next detect_page_state starts.
ApprovalLoop(f, t) ==
    LET elapsed == t - f.start_time IN
    IF elapsed > f.timeout_seconds
    THEN poller' = [f EXCEPT !.pc = "screenshot", !.elapsed = elapsed]
    ELSE poller' = [f EXCEPT !.pc = "detect", !.elapsed = elapsed,
                             !.poll_count = @ + 1]

\* The call, up to its first await.
wait_for_mobile_approval_call(sid, timeout_seconds, poll_interval) ==
    /\ poller.pc = "idle"
    /\ LET f == [poller EXCEPT !.sid = sid, !.timeout_seconds = timeout_seconds,
                               !.poll_interval = poll_interval,
                               !.start_time = now] IN
       IF ~fetcher[sid].page
       THEN ApprovalReturns(f, BrowserNotStarted)
       ELSE ApprovalLoop(f, now)
    /\ UNCHANGED <<sessions, fetchers, unissued, fetcher, page, resource,
                   cancel_calls, auth_state, tasks, lastReturn, now>>

\* ApprovalStep that sleeps and polls again on every state but LOGGED_IN
\* and LOGIN_ERROR.
ApprovalStep_loop_on_unexpected(f, r, d) ==
    IF r.state = LOGGED_IN THEN ApprovalReturns(f, r)
    ELSE IF r.state = LOGIN_ERROR THEN ApprovalReturns(f, r)
    ELSE poller' = [f EXCEPT !.pc = "sleep", !.result = r, !.slack = d]
\* ApprovalStep that takes UNKNOWN for an unexpected state and returns it.
ApprovalStep_returns_unknown(f, r, d) ==
    IF r.state = LOGGED_IN THEN ApprovalReturns(f, r)
    ELSE IF r.state = LOGIN_ERROR THEN ApprovalReturns(f, r)
    ELSE IF r.state # TWOFA_MOBILE THEN ApprovalReturns(f, r)
    ELSE poller' = [f EXCEPT !.pc = "sleep", !.result = r, !.slack = d]

\* What the loop does with the result r of a detect_page_state that took d.
ApprovalStep(f, r, d) ==
    IF r.state = LOGGED_IN THEN ApprovalReturns(f, r)
    ELSE IF r.state = LOGIN_ERROR THEN ApprovalReturns(f, r)
    ELSE IF r.state \notin {TWOFA_MOBILE, UNKNOWN} THEN ApprovalReturns(f, r)
    ELSE poller' = [f EXCEPT !.pc = "sleep", !.result = r, !.slack = d]

\* detect_page_state returns, having taken d ticks, for the page the site
\* shows by then (or one of its probes raised).
approval_detect_done ==
    /\ poller.pc = "detect"
    /\ \E d \in 0..MaxDetectTime, kind \in PageKinds, ok \in BOOLEAN :
         LET r == IF ok THEN detect_page_state(Fixture(kind)) ELSE ErrorDetecting IN
         /\ r.state # NAVIGATE
         /\ page' = [page EXCEPT ![poller.sid] = Fixture(kind)]
         /\ now' = now + d
         /\ ApprovalStep([poller EXCEPT !.seen = @ \cup {r.state}], r, d)
    /\ UNCHANGED <<sessions, fetchers, unissued, fetcher, resource, cancel_calls,
                   auth_state, tasks, lastReturn>>

\* asyncio.sleep(poll_interval) is over, on time or late: the loop goes round.
approval_sleep_done ==
    /\ poller.pc = "sleep"
    /\ \E late \in 0..MaxLate :
         /\ now' = now + poller.poll_interval + late
         /\ ApprovalLoop([poller EXCEPT !.slack = @ + late], now')
    /\ UNCHANGED <<sessions, fetchers, unissued, fetcher, page, resource,
                   cancel_calls, auth_state, tasks, lastReturn>>

\* save_debug_screenshot("mobile_2fa_timeout") is over: the timeout result.
approval_screenshot_done ==
    /\ poller.pc = "screenshot"
    /\ \E d \in 0..MaxDetectTime : now' = now + d
    /\ ApprovalReturns(poller, MobileTimeout)
    /\ UNCHANGED <<sessions, fetchers, unissued, fetcher, page, resource,
                   cancel_calls, auth_state, tasks, lastReturn>>

NextPoller ==
    \/ \E sid \in SessionIds, timeout_seconds \in 0..MaxTimeout,
          poll_interval \in 1..MaxPollInterval :
         wait_for_mobile_approval_call(sid, timeout_seconds, poll_interval)
    \/ approval_detect_done
    \/ approval_sleep_done
    \/ approval_screenshot_done

SpecPoller == InitPoller /\ [][NextPoller]_vars

\* The event loop resumes a call whose await has completed, and every await
\* of the loop completes: the sleep after its interval, detect_page_state and
\* the screenshot when their page calls return or raise.
SpecPollerFair == SpecPoller /\ WF_vars(NextPoller)

(***************************************************************************)
(* Steps, as the properties below name them.                               *)
(***************************************************************************)
\* The handler h takes its next step.
HandlerStep(h) ==
    \/ start_login_done(h)
    \/ submit_credentials_step(h)
    \/ submit_2fa_code_step(h)
    \/ settle_done(h)
    \/ detect_done(h)
    \/ extract_done(h)
    \/ nav_goto_done(h)
    \/ nav_settle_done(h)
    \/ poll_sleep_done(h)
    \/ timeout_screenshot_done(h)
    \/ save_goto_done(h)
    \/ save_settle_done(h)
    \/ save_extract_done(h)
    \/ save_storage_done(h)
    \/ cancel_login_step(h)

\* The call of route op on sid arrives.
RouteCall(op, sid) ==
    CASE op = "submit_credentials" -> submit_credentials_call(sid)
      [] op = "submit_2fa" -> submit_2fa_call(sid)
      [] op = "wait_for_mobile_2fa" -> wait_for_mobile_2fa_call(sid)
      [] op = "cancel_login" -> cancel_login_call(sid)
      [] OTHER -> get_login_status(sid)

\* In this step a handler of route op that was admitted on sid returns its
\* LoginResponse: one that was suspended, or one that never suspended.
RouteReturns(op, sid) ==
    \/ \E h \in BagToSet(tasks) :
         /\ h.op = op /\ h.sid = sid
         /\ HandlerStep(h)
         /\ tasks' = Others(h)
    \/ /\ RouteCall(op, sid)
       /\ tasks' = tasks
       /\ lastReturn'.http = 200

\* The handlers of route op in flight on sid.
InFlight(op, sid) ==
    LET hs == {h \in BagToSet(tasks) : h.op = op /\ h.sid = sid} IN
    BagCardinality([h \in hs |-> CopiesIn(h, tasks)])

FlowOps == {"submit_credentials", "submit_2fa", "wait_for_mobile_2fa"}

\* The state a flow operation requires.
SourceState(op) ==
    CASE op = "submit_credentials" -> INITIALIZED
      [] op = "submit_2fa" -> WAITING_2FA
      [] OTHER -> WAITING_MOBILE

Registered(sid) == sid \in DOMAIN sessions

(***************************************************************************)
(* C1.  A flow operation (submit_credentials, submit_2fa,                  *)
(* wait_for_mobile_2fa) called on a session whose state is not the one it  *)
(* requires is rejected with "Invalid session state" (400), and the        *)
(* registry, every field of the record included, is as it was.             *)
(***************************************************************************)
C1_OutOfStateRejected ==
    [][\A sid \in SessionIds, op \in FlowOps :
         (Registered(sid) /\ sessions[sid].state # SourceState(op)
            /\ RouteCall(op, sid))
         => /\ lastReturn' = HTTPException(op, sid, 400, InvalidSessionState)
            /\ sessions' = sessions]_vars

\* submit_2fa was rejected on a session that submit_credentials left in ERROR.
C1_Witness ==
    /\ lastReturn = HTTPException("submit_2fa", "s1", 400, InvalidSessionState)
    /\ Registered("s1") /\ sessions["s1"].state = ERROR

(***************************************************************************)
(* C2.  When submit_credentials returns, the session (if it is still       *)
(* registered) is in the state the transition table gives for the result:  *)
(* LOGGED_IN -> SUCCESS when the auth state was saved (ERROR when not),    *)
(* TWOFA_APP / TWOFA_SMS -> WAITING_2FA, TWOFA_MOBILE -> WAITING_MOBILE,   *)
(* CAPTCHA -> CAPTCHA, TWOFA_SECURITY_KEY / LOGIN_ERROR / UNKNOWN ->       *)
(* ERROR; and in no state outside these five.                              *)
(***************************************************************************)
C2_Table(result, save) ==
    CASE result = LOGGED_IN -> IF save = "saved" THEN {SUCCESS} ELSE {ERROR}
      [] result \in {TWOFA_APP, TWOFA_SMS} -> {WAITING_2FA}
      [] result = TWOFA_MOBILE -> {WAITING_MOBILE}
      [] result = PS_CAPTCHA -> {CAPTCHA}
      [] result \in {TWOFA_SECURITY_KEY, LOGIN_ERROR, UNKNOWN} -> {ERROR}
      [] OTHER -> {SUCCESS, WAITING_2FA, WAITING_MOBILE, CAPTCHA, ERROR}

C2_CredentialsTable ==
    [][\A sid \in SessionIds :
         (RouteReturns("submit_credentials", sid) /\ sid \in DOMAIN sessions')
         => sessions'[sid].state \in C2_Table(lastReturn'.result, lastReturn'.save)]_vars

\* submit_credentials met the mobile prompt and left the session waiting for it.
C2_Witness ==
    /\ lastReturn.op = "submit_credentials" /\ lastReturn.result = TWOFA_MOBILE
    /\ Registered("s1") /\ sessions["s1"].state = WAITING_MOBILE

(***************************************************************************)
(* C3.  When submit_2fa returns, the session (if it is still registered)   *)
(* is in SUCCESS for LOGGED_IN with the auth state saved, back in          *)
(* WAITING_2FA for LOGIN_ERROR, and in ERROR for every other result.       *)
(***************************************************************************)
C3_Table(result, save) ==
    CASE result = LOGGED_IN -> IF save = "saved" THEN SUCCESS ELSE ERROR
      [] result = LOGIN_ERROR -> WAITING_2FA
      [] OTHER -> ERROR

C3_TwoFactorTable ==
    [][\A sid \in SessionIds :
         (RouteReturns("submit_2fa", sid) /\ sid \in DOMAIN sessions')
         => sessions'[sid].state = C3_Table(lastReturn'.result, lastReturn'.save)]_vars

\* submit_2fa met an error banner and left the session open for a retry.
C3_Witness ==
    /\ lastReturn.op = "submit_2fa" /\ lastReturn.result = LOGIN_ERROR
    /\ Registered("s1") /\ sessions["s1"].state = WAITING_2FA

(***************************************************************************)
(* C4.  When wait_for_mobile_2fa returns, the session (if it is still      *)
(* registered) is in SUCCESS for LOGGED_IN with the auth state saved, in   *)
(* WAITING_MOBILE for TWOFA_MOBILE (the timeout), and in ERROR for         *)
(* LOGIN_ERROR and every other result.                                     *)
(***************************************************************************)
C4_Table(result, save) ==
    CASE result = LOGGED_IN -> IF save = "saved" THEN SUCCESS ELSE ERROR
      [] result = TWOFA_MOBILE -> WAITING_MOBILE
      [] OTHER -> ERROR

C4_MobileTable ==
    [][\A sid \in SessionIds :
         (RouteReturns("wait_for_mobile_2fa", sid) /\ sid \in DOMAIN sessions')
         => sessions'[sid].state = C4_Table(lastReturn'.result, lastReturn'.save)]_vars

(***************************************************************************)
(* C5.  After submit_2fa with a wrong code, the remote page showing the    *)
(* code input again together with its rejection banner, the session is     *)
(* back in WAITING_2FA (so the next submit_2fa is accepted).               *)
(***************************************************************************)
C5_WrongCodeRetry ==
    [][\A h \in BagToSet(tasks) :
         (/\ h.op = "submit_2fa" /\ h.pc = "detect"
          /\ page[h.sid] = Fixture("app_err")
          /\ detect_done(h)
          /\ lastReturn'.result # UNKNOWN
          /\ h.sid \in DOMAIN sessions')
         => sessions'[h.sid].state = WAITING_2FA]_vars

\* No handler is in flight on sid.
Quiet(sid) == \A h \in BagToSet(tasks) : h.sid # sid

\* Everything but the response handed back is as it was.
NothingTouched ==
    UNCHANGED <<sessions, fetchers, unissued, now, poller, fetcher, page, resource,
                cancel_calls, auth_state, tasks>>

Cancelled(sid) ==
    LoginResponse("cancel_login", sid, "error", "Session cancelled",
                  None, None, None, None)

C7_UnknownIdNotFound ==
    [][\A sid \in SessionIds, op \in FlowOps \cup {"get_login_status"} :
         (~Registered(sid) /\ RouteCall(op, sid))
         => /\ lastReturn' = HTTPException(op, sid, 404, SessionNotFound)
            /\ NothingTouched]_vars

\* get_login_status was answered 404 for an id that was never issued.
C7_Witness ==
    /\ lastReturn = HTTPException("get_login_status", "s1", 404, SessionNotFound)
    /\ "s1" \in unissued /\ ~Registered("s1")

(***************************************************************************)
(* C8.  With one cancel_login called on a session whose fetcher was        *)
(* attached, however its steps interleave with those of a                  *)
(* submit_credentials on the same session: close() is called at most once, *)
(* no part of the resource is closed twice, and once the session is gone   *)
(* and no handler is left in flight, close() was called exactly once,      *)
(* every part was closed exactly once and the resource is released.        *)
(***************************************************************************)
C8_ReleasedExactlyOnce ==
    \A sid \in SessionIds :
      (resource[sid].attached /\ cancel_calls[sid] = 1)
      => /\ resource[sid].close_calls = 1
         /\ \A part \in DOMAIN resource[sid].closes :
              resource[sid].closes[part] <= 1
         /\ (~Registered(sid) /\ Quiet(sid))
            => /\ resource[sid].released
               /\ \A part \in DOMAIN resource[sid].closes :
                    resource[sid].closes[part] = 1

\* submit_credentials was overtaken by cancel_login and returned after it.
C8_Witness ==
    /\ lastReturn.op = "submit_credentials" /\ lastReturn.http = 200
    /\ resource["s1"].attached /\ cancel_calls["s1"] = 1
    /\ ~Registered("s1") /\ tasks = EmptyBag
    /\ resource["s1"].close_calls = 1

(***************************************************************************)
(* C9.  Once close() called by cancel_login has returned, no handler,      *)
(* one that was in flight included, starts a page or context call (probe,  *)
(* fill, click, navigation, wait, storage snapshot) on that resource.      *)
(***************************************************************************)
C9_NoAccessAfterRelease ==
    \A sid \in SessionIds : ~resource[sid].late_access

\* A poll of wait_for_mobile_2fa that was in flight at the release has returned.
C9_Witness ==
    /\ resource["s1"].released /\ ~resource["s1"].late_access
    /\ lastReturn.op = "wait_for_mobile_2fa" /\ lastReturn.http = 200
    /\ ~Registered("s1")

(***************************************************************************)
(* C10.  At most one of submit_credentials, submit_2fa and                 *)
(* wait_for_mobile_2fa is in flight on a session at any time.              *)
(***************************************************************************)
C10_OneFlowOpInFlight ==
    \A sid \in SessionIds :
      InFlight("submit_credentials", sid) + InFlight("submit_2fa", sid)
        + InFlight("wait_for_mobile_2fa", sid) <= 1

\* Some part of the browser of sid's fetcher is up.
Live(sid) ==
    \/ fetcher[sid].page \/ fetcher[sid].context
    \/ fetcher[sid].browser \/ fetcher[sid].playwright

(***************************************************************************)
(* C11.  cancel_login is accepted whatever the session's state, and once   *)
(* it has returned the session id is absent from the registry and the      *)
(* browser of the session's fetcher is released: no part of it is up.      *)
(***************************************************************************)
C11_CancelledIsReleased ==
    \A sid \in SessionIds :
      (cancel_calls[sid] >= 1 /\ ~Registered(sid)) => ~Live(sid)

(***************************************************************************)
(* C12.  However many cancel_login calls run on a session and however      *)
(* their steps interleave, no part of the browser (page, context, browser, *)
(* playwright) is torn down a second time.                                 *)
(***************************************************************************)
C12_NoSecondTeardown ==
    \A sid \in SessionIds : \A part \in DOMAIN resource[sid].closes :
      resource[sid].closes[part] <= 1

(***************************************************************************)
(* C13.  Whenever neither submit_credentials nor submit_2fa is in flight   *)
(* on a session, its state is neither SUBMITTING_CREDENTIALS nor           *)
(* SUBMITTING_2FA.                                                         *)
(***************************************************************************)
C13_SubmittingIsTransient ==
    \A sid \in SessionIds :
      (/\ Registered(sid)
       /\ InFlight("submit_credentials", sid) = 0
       /\ InFlight("submit_2fa", sid) = 0)
      => sessions[sid].state \notin {SUBMITTING_CREDENTIALS, SUBMITTING_2FA}

\* submit_2fa has returned after a probe raised, and left the session in ERROR.
C13_Witness ==
    /\ lastReturn.op = "submit_2fa" /\ lastReturn.result = UNKNOWN
    /\ lastReturn.error # None
    /\ Registered("s1") /\ sessions["s1"].state = ERROR
    /\ tasks = EmptyBag

(***************************************************************************)
(* C14.  A session is written SUCCESS only in the step in which            *)
(* save_auth_state returns success for its account (the storage state is   *)
(* on disk); a flow route that returns for LOGGED_IN with the save failed  *)
(* leaves the session in ERROR; one that returns with the save succeeded   *)
(* leaves it in SUCCESS, whether or not save_auth_state resolved a         *)
(* username.                                                               *)
(***************************************************************************)
C14_SuccessOnlyAfterSave ==
    [][\A sid \in SessionIds :
         sid \in DOMAIN sessions' =>
           /\ (/\ sessions'[sid].state = SUCCESS
               /\ (Registered(sid) => sessions'[sid] # sessions[sid]))
              => /\ lastReturn'.save = "saved"
                 /\ auth_state'[sessions'[sid].account].saved
           /\ \A op \in FlowOps :
                (RouteReturns(op, sid) /\ lastReturn'.result = LOGGED_IN)
                => IF lastReturn'.save = "saved"
                   THEN /\ sessions'[sid].state = SUCCESS
                        /\ lastReturn'.username \in {None, Octocat}
                   ELSE sessions'[sid].state = ERROR]_vars

\* The auth state was saved without a username: the session is in SUCCESS.
C14_Witness ==
    /\ lastReturn.save = "saved" /\ lastReturn.username = None
    /\ Registered("s1") /\ sessions["s1"].state = SUCCESS
    /\ sessions["s1"].username = None
    /\ auth_state["default"].saved

(***************************************************************************)
(* C15.  The manager holds at most one fetcher under each session id, and  *)
(* holds no fetcher under two session ids.                                 *)
(***************************************************************************)
C15_OneFetcherPerSession ==
    /\ \A sid \in RegistryIds :
         Cardinality({o \in RegistryIds : sid \in resource[o].owners}) <= 1
    /\ \A o \in RegistryIds : Cardinality(resource[o].owners) <= 1
    /\ \A sid \in RegistryIds :
         sid \in fetchers <=> \E o \in RegistryIds : sid \in resource[o].owners

\* Two sessions are registered, each with the fetcher its start_login made.
C15_Witness ==
    /\ DOMAIN sessions = RegistryIds /\ fetchers = RegistryIds
    /\ resource["s1"].owners = {"s1"} /\ resource["s2"].owners = {"s2"}

C18_InitializedHasFetcher ==
    \A sid \in SessionIds :
      (Registered(sid) /\ sessions[sid].state = INITIALIZED)
      => (sid \in fetchers /\ fetcher[sid].page)

\* detect_page_state has returned for the page sid's browser shows.
Classified(sid) == lastReturn.op = "detect_page_state" /\ lastReturn.sid = sid

(***************************************************************************)
(* C19.  detect_page_state returns LOGGED_IN, and nothing else with it,    *)
(* for every page on which the user-menu button is present, whatever the   *)
(* other probes (CAPTCHA, 2FA URL or elements, error banners, login form)  *)
(* would answer.                                                           *)
(***************************************************************************)
C19_LoggedInFirst ==
    \A sid \in SessionIds :
      (Classified(sid) /\ page[sid].userMenu)
      => lastReturn.result = PageStateResult(LOGGED_IN, None, None, None)

\* A page with the user menu, a CAPTCHA, the mobile URL, a banner and the form.
C19_Witness ==
    /\ Classified("s1") /\ lastReturn.result.state = LOGGED_IN
    /\ page["s1"].userMenu /\ page["s1"].captcha /\ page["s1"].url = "mobile"
    /\ page["s1"].flash = FlashText /\ page["s1"].appOtp
    /\ page["s1"].loginInput /\ page["s1"].passwordInput

(***************************************************************************)
(* C20.  For every assignment of probe answers detect_page_state returns   *)
(* one PageState, the outcome of the first rule that matches in the order  *)
(* 1 logged-in, 2 CAPTCHA, 3 mobile URL, 4 mobile elements, 5 security-key *)
(* URL, 6 security-key button, 7 app OTP input, 8 2FA text + SMS input,    *)
(* 9 2FA text + generic code input, 10 error banner, 11 alternate error    *)
(* banners, 12 login form, 13 Unknown.  (A security-key URL with a mobile  *)
(* link is followed, and the result is that of the page reached.)          *)
(***************************************************************************)
C20_Matches(i, p) ==
    CASE i = 1 -> p.userMenu
      [] i = 2 -> p.captcha
      [] i = 3 -> p.url = "mobile"
      [] i = 4 -> p.mobileEl
      [] i = 5 -> p.url = "webauthn"
      [] i = 6 -> p.secKeyBtn
      [] i = 7 -> p.appOtp \/ p.appTotp
      [] i = 8 -> p.twofaText /\ p.smsOtp
      [] i = 9 -> p.twofaText /\ p.genericOtp
      [] i = 10 -> p.flash \notin {None, "", " "}
      [] i = 11 -> p.alt \notin {None, "", " "}
      [] i = 12 -> p.loginInput /\ p.passwordInput
      [] OTHER -> TRUE

C20_Outcome(i) ==
    CASE i = 1 -> LOGGED_IN
      [] i = 2 -> PS_CAPTCHA
      [] i \in {3, 4} -> TWOFA_MOBILE
      [] i \in {5, 6} -> TWOFA_SECURITY_KEY
      [] i \in {7, 9} -> TWOFA_APP
      [] i = 8 -> TWOFA_SMS
      [] i \in {10, 11} -> LOGIN_ERROR
      [] i = 12 -> LOGIN_FORM
      [] OTHER -> UNKNOWN

C20_First(p) ==
    CHOOSE i \in 1..13 : C20_Matches(i, p) /\ \A j \in 1..(i - 1) : ~C20_Matches(j, p)

C20_FirstMatchWins ==
    \A sid \in SessionIds :
      Classified(sid)
      => /\ lastReturn.result.state \in PageState
         /\ lastReturn.result.state = C20_Outcome(C20_First(page[sid]))

\* A wrong-code page: the app OTP input (rule 7) wins over the banner (rule 10).
C20_Witness ==
    /\ Classified("s1") /\ lastReturn.result.state = TWOFA_APP
    /\ page["s1"].appOtp /\ page["s1"].flash = FlashText
    /\ page["s1"].loginInput /\ page["s1"].passwordInput
    /\ ~page["s1"].userMenu

(***************************************************************************)
(* C21.  A page call that raises inside submit_credentials or              *)
(* submit_2fa_code (a wait, fill, click, the probes of detect_page_state,  *)
(* its navigation) is absorbed: the operation returns UNKNOWN carrying the *)
(* failure text and the route answers with it, nothing is raised to the    *)
(* caller.  The exception is the extraction of the mobile digits: a probe  *)
(* that raises there is absorbed too, but the result stays TWOFA_MOBILE,   *)
(* without digits and without the failure text.                            *)
(***************************************************************************)
C21_SubmitOps == {"submit_credentials", "submit_2fa"}

\* The awaits of the two operations that are calls on the page.
C21_PageCalls ==
    {"wait_for_selector", "fill_login", "fill_password", "otp_count", "fill_code",
     "click", "wait_for_load_state", "detect", "nav_goto"}

C21_FailureTexts ==
    {"Error submitting credentials: exception text",
     "Error submitting 2FA code: exception text",
     "Error detecting page state: exception text"}

\* The handler h, suspended in a call on a page that is closed (the call
\* raises), takes its step.
C21_RaisedStep(h) ==
    /\ h.op \in C21_SubmitOps
    /\ ~PageAnswers(h.sid)
    /\ HandlerStep(h)

\* The statement as the specification has it: whichever probe raises, the
\* operation returns UNKNOWN with the failure text.
C21_AnyFailureIsUnknown ==
    [][\A h \in BagToSet(tasks) :
         (C21_RaisedStep(h) /\ h.pc \in C21_PageCalls \cup {"extract"})
           => /\ tasks' = Others(h)
              /\ lastReturn'.http = 200
              /\ lastReturn'.result = UNKNOWN
              /\ lastReturn'.error \in C21_FailureTexts]_vars

C21_FailureAbsorbed ==
    [][\A h \in BagToSet(tasks) :
         /\ (C21_RaisedStep(h) /\ h.pc \in C21_PageCalls)
              => /\ tasks' = Others(h)
                 /\ lastReturn'.http = 200
                 /\ lastReturn'.result = UNKNOWN
                 /\ lastReturn'.status = "error"
                 /\ lastReturn'.error \in C21_FailureTexts
         /\ (C21_RaisedStep(h) /\ h.pc = "extract")
              => /\ tasks' = Others(h)
                 /\ lastReturn'.http = 200
                 /\ lastReturn'.result = TWOFA_MOBILE
                 /\ lastReturn'.verification_code = None
         /\ (h.op \in C21_SubmitOps /\ HandlerStep(h) /\ tasks' = Others(h))
              => lastReturn'.http = 200]_vars

\* submit_credentials has answered with the failure text of a call that
\* raised on the closed page.
C21_Witness ==
    /\ lastReturn.op = "submit_credentials" /\ lastReturn.http = 200
    /\ lastReturn.result = UNKNOWN
    /\ lastReturn.error = "Error submitting credentials: exception text"
    /\ resource["s1"].page_closed

(***************************************************************************)
(* C22.  wait_for_mobile_approval is bounded: for every timeout, every     *)
(* positive poll interval and every sequence of results of                 *)
(* detect_page_state, the call returns, and the calls of                   *)
(* detect_page_state it makes are at most one more than the whole poll     *)
(* intervals that fit in the timeout.                                      *)
(***************************************************************************)
C22_MaxPolls == (poller.timeout_seconds \div poller.poll_interval) + 1

C22_LoopBounded ==
    /\ [](poller.pc # "idle" => poller.poll_count <= C22_MaxPolls)
    /\ <>(poller.pc = "returned")

\* A call that timed out after as many polls as the bound allows, the
\* timeout holding at least two poll intervals.
C22_Witness ==
    /\ poller.pc = "returned" /\ poller.result = MobileTimeout
    /\ poller.poll_count = C22_MaxPolls
    /\ poller.poll_count >= 3

C24_IterationDecides ==
    [][/\ poller.pc = "detect"
         => LET r == poller'.result IN
            /\ r.state \in PageState
            /\ r.state \in {TWOFA_MOBILE, UNKNOWN}
                 => /\ poller'.pc = "sleep"
                    /\ poller'.poll_count = poller.poll_count
            /\ r.state \notin {TWOFA_MOBILE, UNKNOWN}
                 => /\ poller'.pc = "returned"
                    /\ poller'.poll_count = poller.poll_count
       /\ poller.pc = "sleep"
         => /\ now' >= now + poller.poll_interval
            /\ poller'.pc \in {"detect", "screenshot"}
            /\ poller'.pc = "detect" => poller'.poll_count = poller.poll_count + 1
       /\ poller.pc = "returned" => poller' = poller]_vars

\* After a poll that slept, a state the loop does not expect was returned.
C24_Witness ==
    /\ poller.pc = "returned" /\ poller.poll_count >= 2
    /\ poller.result.state \in {LOGIN_FORM, TWOFA_APP, TWOFA_SMS,
                                TWOFA_SECURITY_KEY, PS_CAPTCHA}

(***************************************************************************)
(* C25.  submit_2fa_code fills the first input present in the order        *)
(* input[name="app_otp"], input[id="app_totp"], input[name="sms_otp"],     *)
(* input[autocomplete="one-time-code"]; when none is present it returns    *)
(* UNKNOWN with the message that no 2FA input field was found, and neither *)
(* a fill nor a click is started on the page.                              *)
(***************************************************************************)
\* The input the order of the claim picks on the page p.
C25_First(p) ==
    IF p.appOtp THEN "app_otp"
    ELSE IF p.appTotp THEN "app_totp"
    ELSE IF p.smsOtp THEN "sms_otp"
    ELSE IF p.genericOtp THEN "one-time-code"
    ELSE None

C25_FirstPresentInput ==
    [][\A h \in BagToSet(tasks) :
         (h.op = "submit_2fa" /\ h.pc = "otp_count" /\ submit_2fa_code_step(h))
           => LET first == C25_First(page[h.sid]) IN
              \/ \* the fill of the first input present starts
                 /\ first # None
                 /\ tasks' = Others(h) (+) SetToBag({[h EXCEPT !.pc = "fill_code"]})
                 /\ resource'[h.sid].filled = first
                 /\ resource'[h.sid].clicked = resource[h.sid].clicked
              \/ \* no input: UNKNOWN, nothing filled, nothing clicked
                 /\ first = None
                 /\ tasks' = Others(h)
                 /\ lastReturn'.result = UNKNOWN
                 /\ lastReturn'.error = "Could not find 2FA input field"
                 /\ resource' = resource
              \/ \* a count() raised
                 /\ tasks' = Others(h)
                 /\ lastReturn'.result = UNKNOWN
                 /\ lastReturn'.error = "Error submitting 2FA code: exception text"
                 /\ resource' = resource]_vars

\* The SMS input was filled on a page that also has the generic input, and
\* no app input.
C25_Witness ==
    /\ \E h \in BagToSet(tasks) : h.op = "submit_2fa" /\ h.pc = "fill_code"
    /\ ~page["s1"].appOtp /\ ~page["s1"].appTotp
    /\ page["s1"].smsOtp /\ page["s1"].genericOtp
    /\ resource["s1"].filled = "sms_otp"

(***************************************************************************)
(* C26.  When a bounded wait of submit_credentials (for the login inputs,  *)
(* for the load after the click) ends without what it waited for, while   *)
(* the page is there, submit_credentials does not return the failure: it   *)
(* goes on to detect_page_state and returns what the page shows.           *)
(***************************************************************************)
C26_TimeoutReclassifies ==
    [][\A h \in BagToSet(tasks) :
         (/\ h.op = "submit_credentials"
          /\ h.pc \in {"wait_for_selector", "wait_for_load_state"}
          /\ PageAnswers(h.sid)
          /\ submit_credentials_step(h))
           => ~(/\ tasks' = Others(h)
                /\ lastReturn'.op = "submit_credentials"
                /\ lastReturn'.result = UNKNOWN
                /\ lastReturn'.error =
                     "Error submitting credentials: exception text")]_vars

(***************************************************************************)
(* C27.  On a page at the security-key (WebAuthn) URL that none of the     *)
(* earlier rules matches: when it has a link to the mobile page and the    *)
(* link has an href, detect_page_state navigates to it and returns what it *)
(* detects on the page reached, nothing for the page it left; when there   *)
(* is no such link, or no href, it returns TWOFA_SECURITY_KEY with the     *)
(* not-supported message and does not navigate.                            *)
(***************************************************************************)
\* detect_page_state gets as far as the test of the security-key URL.
C27_AtSecurityKeyUrl(p) ==
    /\ ~p.userMenu /\ ~p.captcha /\ p.url = "webauthn" /\ ~p.mobileEl

C27_MobileFallback ==
    [][\A sid \in SessionIds :
         /\ detect_page_state_navigate(sid)
              => /\ C27_AtSecurityKeyUrl(page[sid])
                 /\ page[sid].mobileLink = "href"
                 /\ resource'[sid].navigated
                 /\ lastReturn' = NoReturn
         /\ (detect_page_state_return(sid) /\ C27_AtSecurityKeyUrl(page[sid]))
              => /\ page[sid].mobileLink \in {"none", "nohref"}
                 /\ page' = page /\ resource' = resource
                 /\ lastReturn'.result =
                      PageStateResult(TWOFA_SECURITY_KEY,
                          "Security key 2FA not supported. Please configure authenticator app in GitHub settings.",
                          "security_key", None)
         /\ (detect_page_state_return(sid) /\ ~C27_AtSecurityKeyUrl(page[sid]))
              => /\ page' = page /\ resource' = resource
                 /\ lastReturn'.result.state # NAVIGATE
                 /\ lastReturn'.result.state = TWOFA_SECURITY_KEY
                      => page[sid].secKeyBtn]_vars

\* After the navigation from a security-key page the mobile page reached was
\* detected.
C27_Witness ==
    /\ resource["s1"].navigated
    /\ Classified("s1") /\ lastReturn.result.state = TWOFA_MOBILE
    /\ page["s1"] = Fixture("mobile")
    /\ lastReturn.result.verification_code = MobileCode

(***************************************************************************)
(* C28.  The extraction of the verification code returns the digits of the *)
(* first selector of code_selectors whose first element has a text with at *)
(* least two digit characters; when no selector has one, the first two     *)
(* digits of the body text that stand alone ("a 42 " gives "42"); when     *)
(* there are none, None.  It never raises, and detect_page_state returns   *)
(* TWOFA_MOBILE whatever the extraction gives.                             *)
(***************************************************************************)
C28_Qualifies(el) == el.count > 0 /\ ~el.null /\ NumDigits(el.text) >= 2

\* The positions of the body text where two digits stand between blanks or
\* the ends of the text.
C28_Tokens(text) ==
    {i \in 1..(Len(text) - 1) :
       /\ text[i] \in {"4", "2"} /\ text[i + 1] \in {"4", "2"}
       /\ (i > 1 => text[i - 1] = " ")
       /\ (i + 2 <= Len(text) => text[i + 2] = " ")}

C28_Expected(p) ==
    LET q == {i \in DOMAIN code_selectors : C28_Qualifies(p.els[code_selectors[i]])}
        t == C28_Tokens(p.body) IN
    IF q # {}
    THEN LET i == CHOOSE k \in q : \A j \in q : k <= j IN
         Digits(p.els[code_selectors[i]].text)
    ELSE IF t # {}
    THEN LET i == CHOOSE k \in t : \A j \in t : k <= j IN p.body[i] \o p.body[i + 1]
    ELSE None

C28_ExtractionHeuristic ==
    \A sid \in SessionIds :
      Classified(sid)
        => /\ lastReturn.result.state = TWOFA_MOBILE
           /\ lastReturn.result.twofa_method = "mobile"
           /\ lastReturn.result.error_message = None
           /\ lastReturn.result.verification_code =
                IF lastReturn.message = "Error extracting verification code: exception text"
                THEN None
                ELSE C28_Expected(page[sid])

\* No selector has an element and the body text "a 42 " gave "42".
C28_Witness ==
    /\ Classified("s1")
    /\ \A s \in DOMAIN page["s1"].els : page["s1"].els[s].count = 0
    /\ page["s1"].body = <<"a", " ", "4", "2", " ">>
    /\ lastReturn.result.verification_code = "42"

(***************************************************************************)
(* Two sessions side by side: s1 has submitted its credentials and waits   *)
(* for the approval on the device, s2 is still to be created.  A client    *)
(* sends a session one request at a time; the requests to the two sessions *)
(* interleave freely.  s1 is sent wait_for_mobile_2fa, s2 every route.     *)
(***************************************************************************)
InitPair ==
    /\ sessions = credentials_update([s \in {"s1"} |-> NewSession("default")], "s1",
                                     detect_page_state(Fixture("mobile")))
    /\ fetchers = {"s1"}
    /\ unissued = {"s2"}
    /\ fetcher = [s \in RegistryIds |-> IF s = "s1" THEN StartedFetcher ELSE NewFetcher]
    /\ page = [s \in RegistryIds |->
                 IF s = "s1" THEN Fixture("mobile") ELSE Fixture("blank")]
    /\ resource = [s \in RegistryIds |->
                     IF s = "s1"
                     THEN [NewResource EXCEPT !.attached = TRUE, !.owners = {"s1"},
                                              !.clicked = TRUE]
                     ELSE NewResource]
    /\ cancel_calls = [s \in RegistryIds |-> 0]
    /\ auth_state = [a \in Accounts |-> [saved |-> FALSE, username |-> None]]
    /\ tasks = EmptyBag
    /\ lastReturn = NoReturn
    /\ now = 0
    /\ poller = NoPoller

\* No handler is in flight on sid.
Idle(sid) == \A h \in BagToSet(tasks) : h.sid # sid

NextPair ==
    \/ \E account \in Accounts : start_login_call(account)
    \/ \E h \in BagToSet(tasks) : start_login_done(h)
    \/ \E sid \in {"s2"} : Idle(sid) /\ submit_credentials_call(sid)
    \/ \E h \in BagToSet(tasks) : submit_credentials_step(h)
    \/ \E sid \in {"s2"} : Idle(sid) /\ submit_2fa_call(sid)
    \/ \E h \in BagToSet(tasks) : submit_2fa_code_step(h)
    \/ \E h \in BagToSet(tasks) : settle_done(h)
    \/ \E h \in BagToSet(tasks) : detect_done(h)
    \/ \E h \in BagToSet(tasks) : extract_done(h)
    \/ \E h \in BagToSet(tasks) : nav_goto_done(h)
    \/ \E h \in BagToSet(tasks) : nav_settle_done(h)
    \/ \E sid \in RegistryIds : Idle(sid) /\ wait_for_mobile_2fa_call(sid)
    \/ \E h \in BagToSet(tasks) : poll_sleep_done(h)
    \/ \E h \in BagToSet(tasks) : timeout_screenshot_done(h)
    \/ \E h \in BagToSet(tasks) : save_goto_done(h)
    \/ \E h \in BagToSet(tasks) : save_settle_done(h)
    \/ \E h \in BagToSet(tasks) : save_extract_done(h)
    \/ \E h \in BagToSet(tasks) : save_storage_done(h)
    \/ \E sid \in {"s2"} : Idle(sid) /\ cancel_login_call(sid)
    \/ \E h \in BagToSet(tasks) : cancel_login_step(h)
    \/ \E sid \in {"s2"} : Idle(sid) /\ get_login_status(sid)
    \/ \E sid \in RegistryIds : RemoteUpdate(sid)

SpecPair == InitPair /\ [][NextPair]_vars

(***************************************************************************)
(* C29.  Sessions are independent: a handler suspended on one session      *)
(* never keeps a handler on another session from taking its next step, so  *)
(* every operation on the other session can run to completion; and no step *)
(* of an operation on one session changes another session's record, its    *)
(* fetcher, its page or what the double of its browser has recorded.       *)
(***************************************************************************)
\* What belongs to session b is the same after the step.
C29_Untouched(b) ==
    /\ (b \in DOMAIN sessions') = (b \in DOMAIN sessions)
    /\ b \in DOMAIN sessions => sessions'[b] = sessions[b]
    /\ (b \in fetchers') = (b \in fetchers)
    /\ fetcher'[b] = fetcher[b]
    /\ page'[b] = page[b]
    /\ resource'[b] = resource[b]
    /\ cancel_calls'[b] = cancel_calls[b]

\* A handler step or a route call on session a.
C29_StepOn(a) ==
    \/ \E h \in BagToSet(tasks) : h.sid = a /\ HandlerStep(h)
    \/ \E op \in FlowOps \cup {"cancel_login", "get_login_status"} : RouteCall(op, a)
    \/ a \in unissued /\ a \notin unissued'
         /\ \E account \in Accounts : start_login_call(account)

C29_SessionsIndependent ==
    /\ [][\A a \in RegistryIds : C29_StepOn(a)
             => \A b \in RegistryIds \ {a} : C29_Untouched(b)]_vars
    /\ [](\A h \in BagToSet(tasks) : ENABLED HandlerStep(h))

\* wait_for_mobile_2fa on s1 is suspended in the sleep of its loop, s1 still
\* waits for the approval, and the last handler to return took s2 through
\* the saving of the login to SUCCESS.
C29_Witness ==
    /\ \E h \in BagToSet(tasks) : h.sid = "s1" /\ h.pc = "poll_sleep"
    /\ Idle("s2")
    /\ Registered("s2") /\ sessions["s2"].state = SUCCESS
    /\ lastReturn.sid = "s2" /\ lastReturn.op = "submit_credentials"
    /\ lastReturn.status = "success"
    /\ Registered("s1") /\ sessions["s1"].state = WAITING_MOBILE
    /\ page["s1"] = Fixture("mobile")

(***************************************************************************)
(* C30.  Every terminal outcome carries a text: a session in ERROR or      *)
(* CAPTCHA has a non-empty error_message, and every LoginResponse with     *)
(* status "success", "error" or "captcha", from a flow route or from       *)
(* get_login_status, has a non-empty message or a non-empty error.         *)
(***************************************************************************)
C30_Text(x) == x # None /\ x # ""

C30_OutcomeHasMessage ==
    /\ \A sid \in DOMAIN sessions :
         sessions[sid].state \in {ERROR, CAPTCHA}
           => C30_Text(sessions[sid].error_message)
    /\ (lastReturn.http = 200 /\ lastReturn.status \in {"success", "error", "captcha"})
         => C30_Text(lastReturn.message) \/ C30_Text(lastReturn.error)

(***************************************************************************)
(* One session whose client sends it one request at a time: the next       *)
(* request arrives when the handler of the last one has returned.          *)
(***************************************************************************)
NextSerial ==
    \/ \E account \in Accounts : start_login_call(account)
    \/ \E h \in BagToSet(tasks) : start_login_done(h)
    \/ \E sid \in SessionIds : Idle(sid) /\ submit_credentials_call(sid)
    \/ \E h \in BagToSet(tasks) : submit_credentials_step(h)
    \/ \E sid \in SessionIds : Idle(sid) /\ submit_2fa_call(sid)
    \/ \E h \in BagToSet(tasks) : submit_2fa_code_step(h)
    \/ \E h \in BagToSet(tasks) : settle_done(h)
    \/ \E h \in BagToSet(tasks) : detect_done(h)
    \/ \E h \in BagToSet(tasks) : extract_done(h)
    \/ \E h \in BagToSet(tasks) : nav_goto_done(h)
    \/ \E h \in BagToSet(tasks) : nav_settle_done(h)
    \/ \E sid \in SessionIds : Idle(sid) /\ wait_for_mobile_2fa_call(sid)
    \/ \E h \in BagToSet(tasks) : poll_sleep_done(h)
    \/ \E h \in BagToSet(tasks) : timeout_screenshot_done(h)
    \/ \E h \in BagToSet(tasks) : save_goto_done(h)
    \/ \E h \in BagToSet(tasks) : save_settle_done(h)
    \/ \E h \in BagToSet(tasks) : save_extract_done(h)
    \/ \E h \in BagToSet(tasks) : save_storage_done(h)
    \/ \E sid \in SessionIds : Idle(sid) /\ cancel_login_call(sid)
    \/ \E h \in BagToSet(tasks) : cancel_login_step(h)
    \/ \E sid \in SessionIds : Idle(sid) /\ get_login_status(sid)
    \/ \E sid \in SessionIds : RemoteUpdate(sid)

SpecSerial == Init /\ [][NextSerial]_vars

(***************************************************************************)
(* C31.  When submit_credentials on a newly created session ends with the  *)
(* page detected as LOGIN_ERROR with the text m, the response has status   *)
(* "error" and error m, the session is stored in ERROR with error_message  *)
(* m, and a submit_2fa that follows is rejected with "Invalid session      *)
(* state" (400) and changes nothing.                                       *)
(***************************************************************************)
C31_LoginErrorSurfaced ==
    /\ [][\A h \in BagToSet(tasks) :
            (/\ h.op = "submit_credentials"
             /\ HandlerStep(h)
             /\ tasks' = Others(h)
             /\ lastReturn'.result = LOGIN_ERROR)
              => LET m == detect_page_state(page[h.sid]).error_message IN
                 /\ m \notin {None, ""}
                 /\ lastReturn'.http = 200 /\ lastReturn'.status = "error"
                 /\ lastReturn'.error = m
                 /\ Registered(h.sid)'
                 /\ sessions'[h.sid].state = ERROR
                 /\ sessions'[h.sid].error_message = m]_vars
    /\ [][\A sid \in SessionIds :
            (/\ lastReturn.op = "submit_credentials" /\ lastReturn.sid = sid
             /\ lastReturn.result = LOGIN_ERROR
             /\ submit_2fa_call(sid))
              => /\ lastReturn' = HTTPException("submit_2fa", sid, 400, InvalidSessionState)
                 /\ sessions' = sessions /\ tasks' = tasks]_vars

\* The banner of the rejected password was stored and submit_2fa, which never
\* got to fill a code, has been rejected.
C31_Witness ==
    /\ lastReturn = HTTPException("submit_2fa", "s1", 400, InvalidSessionState)
    /\ Registered("s1") /\ sessions["s1"].state = ERROR
    /\ sessions["s1"].error_message = FlashText
    /\ page["s1"] = Fixture("bad_login")
    /\ resource["s1"].filled = None /\ resource["s1"].clicked

(***************************************************************************)
(* C32.  get_login_status on a registered session answers with the tag of  *)
(* the stored state (INITIALIZED: initialized; SUBMITTING_CREDENTIALS and  *)
(* SUBMITTING_2FA: submitting; WAITING_2FA: waiting_2fa; WAITING_MOBILE:    *)
(* waiting_mobile; SUCCESS: success; ERROR: error; CAPTCHA: captcha), with  *)
(* twofa_method only when requires_2fa is set, and changes neither the     *)
(* session's record nor the registry.                                      *)
(***************************************************************************)
C32_Tag ==
    [s \in LoginState |->
       IF s = INITIALIZED THEN "initialized"
       ELSE IF s \in {SUBMITTING_CREDENTIALS, SUBMITTING_2FA} THEN "submitting"
       ELSE IF s = WAITING_2FA THEN "waiting_2fa"
       ELSE IF s = WAITING_MOBILE THEN "waiting_mobile"
       ELSE IF s = SUCCESS THEN "success"
       ELSE IF s = ERROR THEN "error"
       ELSE "captcha"]

C32_StatusReadMapsState ==
    [][\A sid \in SessionIds :
         (Registered(sid) /\ get_login_status(sid))
           => /\ lastReturn'.http = 200 /\ lastReturn'.op = "get_login_status"
              /\ lastReturn'.status = C32_Tag[sessions[sid].state]
              /\ lastReturn'.twofa_method =
                   IF sessions[sid].requires_2fa THEN sessions[sid].twofa_method
                   ELSE None
              /\ sessions' = sessions
              /\ fetchers' = fetchers /\ unissued' = unissued
              /\ tasks' = tasks]_vars

\* The status was read while submit_2fa was in flight: the tag is
\* "submitting" and the method of the second factor is reported.
C32_Witness ==
    /\ lastReturn.op = "get_login_status" /\ lastReturn.http = 200
    /\ lastReturn.status = "submitting" /\ lastReturn.twofa_method = "app"
    /\ Registered("s1") /\ sessions["s1"].state = SUBMITTING_2FA
    /\ sessions["s1"].requires_2fa
    /\ \E h \in BagToSet(tasks) : h.op = "submit_2fa"

(***************************************************************************)
(* C33.  A banner gives LOGIN_ERROR only when its stripped text is not     *)
(* empty, and the text is the error_message.  With the first banner absent,*)
(* empty or blank, detection goes on to the other banners, then to the     *)
(* login form, then to UNKNOWN.  A page that one of the second-factor      *)
(* rules matches (and that shows neither the user menu nor a CAPTCHA) is   *)
(* detected as a second-factor state, whatever banner it shows.            *)
(***************************************************************************)
C33_HasText(text) == text \notin {None, "", " "}

\* One of the rules for the second factor matches.
C33_TwoFactorRule(p) ==
    \/ p.url \in {"mobile", "webauthn"} \/ p.mobileEl \/ p.secKeyBtn
    \/ p.appOtp \/ p.appTotp
    \/ (p.twofaText /\ (p.smsOtp \/ p.genericOtp))

C33_BannerNeedsText ==
    \A sid \in SessionIds :
      Classified(sid) =>
        LET p == page[sid]
            r == lastReturn.result IN
        /\ r.state = LOGIN_ERROR
             => /\ C33_HasText(r.error_message)
                /\ r.error_message = IF C33_HasText(p.flash) THEN p.flash ELSE p.alt
        /\ (~p.userMenu /\ ~p.captcha /\ ~C33_TwoFactorRule(p) /\ ~C33_HasText(p.flash))
             => r = IF C33_HasText(p.alt)
                    THEN PageStateResult(LOGIN_ERROR, p.alt, None, None)
                    ELSE IF p.loginInput /\ p.passwordInput
                    THEN PageStateResult(LOGIN_FORM, None, None, None)
                    ELSE PageStateResult(UNKNOWN, None, None, None)
        /\ (~p.userMenu /\ ~p.captcha /\ C33_TwoFactorRule(p))
             => /\ r.state \in {TWOFA_MOBILE, TWOFA_SECURITY_KEY, TWOFA_APP, TWOFA_SMS}
                /\ r.error_message \in {None, SecurityKeyMessage}

\* A login form under a blank banner is the login form.
C33_Witness ==
    /\ Classified("s1")
    /\ page["s1"].flash = " " /\ page["s1"].alt = " "
    /\ page["s1"].loginInput /\ page["s1"].passwordInput
    /\ ~page["s1"].userMenu /\ ~page["s1"].captcha /\ ~C33_TwoFactorRule(page["s1"])
    /\ lastReturn.result = PageStateResult(LOGIN_FORM, None, None, None)

(***************************************************************************)
(* C34.  submit_credentials, submit_2fa_code, wait_for_mobile_approval and *)
(* detect_page_state of the fetcher act on the page only: while one of     *)
(* them runs, no session record and nothing of the registry changes, the   *)
(* fetcher keeps its parts and nothing is answered; and when it has        *)
(* returned a result other than LOGGED_IN, the registry is what the route  *)
(* writes for that result.                                                 *)
(***************************************************************************)
\* The awaits of save_auth_state, which the routes call themselves.
C34_SavePcs == {"save_goto", "save_settle", "save_extract", "save_storage"}

C34_FetcherOnlyActsOnPage ==
    [][\A h \in BagToSet(tasks) :
         (h.op \in FlowOps /\ h.pc \notin C34_SavePcs /\ HandlerStep(h))
           => IF tasks' # Others(h)
              THEN UNCHANGED <<sessions, fetchers, unissued, fetcher, cancel_calls,
                               auth_state, lastReturn>>
              ELSE /\ UNCHANGED <<fetchers, unissued, fetcher, cancel_calls, auth_state>>
                   /\ \/ lastReturn'.result = LOGGED_IN
                      \/ \E em \in {None, lastReturn'.error} :
                         \E tm \in {None, lastReturn'.twofa_method} :
                           sessions' = route_update(h.op, sessions, h.sid,
                               PageStateResult(lastReturn'.result, em, tm, None))]_vars

\* submit_2fa is suspended in the click on the code form: the code has been
\* filled in and the record is as the route left it, in SUBMITTING_2FA.
C34_Witness ==
    /\ \E h \in BagToSet(tasks) : h.op = "submit_2fa" /\ h.pc = "click"
    /\ resource["s1"].filled = "app_otp"
    /\ Registered("s1") /\ sessions["s1"].state = SUBMITTING_2FA

(***************************************************************************)
(* C35.  Called on a started fetcher, wait_for_mobile_approval never       *)
(* returns UNKNOWN, and it returns TWOFA_MOBILE only as the timeout result:*)
(* with the timeout message, after the elapsed time it measured at the     *)
(* head of the loop had passed timeout_seconds.  So a TWOFA_MOBILE result  *)
(* always means that the wait timed out, whatever the pages detected on    *)
(* the way were.                                                           *)
(***************************************************************************)
C35_MobileResultMeansTimeout ==
    (poller.pc = "returned" /\ fetcher[poller.sid].page)
      => /\ poller.result.state # UNKNOWN
         /\ poller.result.state = TWOFA_MOBILE
              => /\ poller.result = MobileTimeout
                 /\ poller.elapsed > poller.timeout_seconds
                 /\ now - poller.start_time > poller.timeout_seconds

\* The call timed out after detect_page_state had answered both UNKNOWN and
\* TWOFA_MOBILE on the way.
C35_Witness ==
    /\ poller.pc = "returned" /\ fetcher[poller.sid].page
    /\ {UNKNOWN, TWOFA_MOBILE} \subseteq poller.seen
    /\ poller.result = MobileTimeout
    /\ poller.poll_count >= 2

(***************************************************************************)
(* C36.  SUCCESS is absorbing: once a session is stored in SUCCESS, no     *)
(* step of submit_credentials, submit_2fa, wait_for_mobile_2fa or          *)
(* get_login_status, in any interleaving, changes its state or its         *)
(* username, and only cancel_login removes it.                             *)
(***************************************************************************)
C36_SuccessIsAbsorbing ==
    [][\A sid \in SessionIds :
         (Registered(sid) /\ sessions[sid].state = SUCCESS)
           => IF Registered(sid)'
              THEN /\ sessions'[sid].state = SUCCESS
                   /\ sessions'[sid].username = sessions[sid].username
              ELSE \/ cancel_login_call(sid)
                   \/ \E h \in BagToSet(tasks) :
                        h.op = "cancel_login" /\ cancel_login_step(h)]_vars

(***************************************************************************)
(* C37.  No session is stored in INITIALIZED again once it has left it,    *)
(* and submit_credentials is accepted only in INITIALIZED, which it leaves *)
(* at once: after a first accepted submit_credentials, whatever its        *)
(* result, every later submit_credentials on the session is rejected with  *)
(* "Invalid session state" (400) and changes nothing.                      *)
(***************************************************************************)
C37_CredentialsOnce ==
    [][\A sid \in SessionIds :
         /\ (Registered(sid) /\ sessions[sid].state # INITIALIZED /\ Registered(sid)')
              => sessions'[sid].state # INITIALIZED
         /\ (sid \notin unissued /\ ~Registered(sid)) => ~Registered(sid)'
         /\ (Registered(sid) /\ submit_credentials_call(sid))
              => IF sessions[sid].state = INITIALIZED /\ sid \in fetchers
                 THEN sessions'[sid].state # INITIALIZED
                 ELSE /\ lastReturn'.http \in {400, 500}
                      /\ sessions[sid].state # INITIALIZED
                           => lastReturn' = HTTPException("submit_credentials", sid,
                                                          400, InvalidSessionState)
                      /\ sessions' = sessions /\ tasks' = tasks]_vars

\* A second submit_credentials, after the first ended with the banner of a
\* rejected password, has been rejected.
C37_Witness ==
    /\ lastReturn = HTTPException("submit_credentials", "s1", 400, InvalidSessionState)
    /\ Registered("s1") /\ sessions["s1"].state = ERROR
    /\ sessions["s1"].error_message = FlashText
    /\ resource["s1"].clicked /\ resource["s1"].filled = None
    /\ tasks = EmptyBag

(***************************************************************************)
(* The flow of submit_2fa with every await completing: the event loop      *)
(* resumes a suspended handler whose page call has returned or raised.     *)
(***************************************************************************)
SpecTwoFactorFair ==
    SpecTwoFactor /\ WF_vars(\E h \in BagToSet(tasks) : HandlerStep(h))

(***************************************************************************)
(* C38.  detect_page_state terminates whatever the site serves: a handler  *)
(* that has entered it leaves it again (with a PageStateResult), also when *)
(* the navigation from a security-key page to its mobile link lands on a   *)
(* security-key page with a mobile link again and again.                   *)
(***************************************************************************)
\* A handler is inside detect_page_state.
C38_Detecting ==
    \E h \in BagToSet(tasks) : h.pc \in {"detect", "extract", "nav_goto", "nav_settle"}

C38_ClassifyTerminates == C38_Detecting ~> ~C38_Detecting

(***************************************************************************)
(* C39.  When fetcher.start() fails in start_login, the response has       *)
(* status "error", the session stays registered, in ERROR and with no      *)
(* fetcher attached; submit_credentials, submit_2fa and                    *)
(* wait_for_mobile_2fa on it are then rejected with "Invalid session       *)
(* state" (400) and change nothing, and cancel_login removes it.           *)
(***************************************************************************)
\* A session left behind by a start that failed.
C39_StartFailed(sid) ==
    /\ Registered(sid) /\ sessions[sid].state = ERROR
    /\ sid \notin fetchers /\ ~resource[sid].attached

C39_FailedStartIsError ==
    [][\A sid \in SessionIds :
         /\ \A h \in BagToSet(tasks) :
              (/\ h.op = "start_login" /\ h.sid = sid
               /\ start_login_done(h)
               /\ lastReturn'.status # "initialized")
                => /\ lastReturn'.http = 200 /\ lastReturn'.status = "error"
                   /\ lastReturn'.error = "Failed to start login session: exception text"
                   /\ Registered(sid) => /\ C39_StartFailed(sid)'
                                         /\ sessions'[sid].error_message = ExcText
                                         /\ fetcher'[sid] = NewFetcher
         /\ C39_StartFailed(sid)
              => /\ \A op \in FlowOps :
                      RouteCall(op, sid)
                        => /\ lastReturn' = HTTPException(op, sid, 400, InvalidSessionState)
                           /\ sessions' = sessions /\ tasks' = tasks
                 /\ cancel_login_call(sid)
                      => /\ ~Registered(sid)' /\ tasks' = tasks
                         /\ lastReturn'.http = 200 /\ lastReturn'.op = "cancel_login"]_vars

\* wait_for_mobile_2fa has been rejected on a session whose start failed.
C39_Witness ==
    /\ C39_StartFailed("s1") /\ sessions["s1"].error_message = ExcText
    /\ lastReturn = HTTPException("wait_for_mobile_2fa", "s1", 400, InvalidSessionState)
    /\ tasks = EmptyBag

(***************************************************************************)
(* C40.  The response of an accepted submit_credentials, submit_2fa or     *)
(* wait_for_mobile_2fa that ran with no other call on its session in       *)
(* between agrees with the stored state: get_login_status called right     *)
(* after it answers with the same status tag (success, error, captcha,     *)
(* waiting_2fa or waiting_mobile).                                         *)
(***************************************************************************)
\* The last thing that happened on sid is that a flow route answered.
C40_JustAnswered(sid) ==
    /\ lastReturn.op \in FlowOps /\ lastReturn.sid = sid /\ lastReturn.http = 200
    /\ Idle(sid) /\ Registered(sid)

C40_ResponseMatchesStatus ==
    [][\A sid \in SessionIds :
         (C40_JustAnswered(sid) /\ get_login_status(sid))
           => /\ lastReturn'.http = 200
              /\ lastReturn'.status = lastReturn.status
              /\ lastReturn.status \in {"success", "error", "captcha", "waiting_2fa",
                                        "waiting_mobile"}]_vars

\* After submit_credentials had answered "captcha", the status read did too.
C40_Witness ==
    /\ lastReturn.op = "get_login_status" /\ lastReturn.http = 200
    /\ lastReturn.status = "captcha"
    /\ Registered("s1") /\ sessions["s1"].state = CAPTCHA
    /\ resource["s1"].clicked /\ Idle("s1")

====
